---- MODULE Spec2Model ----
(***************************************************************************)
(* Golf Genius MCP server (src/main.py): the request/response pipeline.    *)
(*                                                                         *)
(* Text is modelled as a sequence of one-character strings, so that        *)
(* concatenation, lstrip('/'), upper(), int() and str() are computed the   *)
(* way Python computes them.  A few fixed texts that the program only      *)
(* ever copies (host name, fixed messages) are kept as one element.        *)
(***************************************************************************)
EXTENDS Integers, Sequences, FiniteSets, TLC

VARIABLES
    pc,              \* position of the caller of make_api_request
    method,          \* argument method
    endpoint,        \* argument endpoint
    kwargs_headers,  \* the "headers" entry of **kwargs (absent or a dict)
    attempt_number,  \* tenacity's attempt counter of the running call
    requests,        \* every client.request(...) issued by the call, in order
    received,        \* what the upstream answered to each of them, in order
    slept,           \* the waits tenacity slept between the attempts
    outcome,         \* how the call left make_api_request
    _client,         \* the module global _client
    clients_created, \* how many httpx.AsyncClient objects were constructed
    data,            \* argument of _sanitize_ids
    once,            \* _sanitize_ids(data)
    twice,           \* _sanitize_ids(_sanitize_ids(data))
    key,             \* argument key of _extract
    extracted,       \* _extract(data, key)
    tool,            \* the tool handler that was called
    args,            \* its arguments
    tool_outcome,    \* how the call left the tool handler
    client,          \* what the latest _get_client() returned to its caller
    kwargs_params,   \* the "params" entry of **kwargs (absent or a dict)
    tasks,           \* the position of each of two concurrent executor calls
    process,         \* the server process: importing, imported, running, exited
    registered,      \* the handlers registered with mcp, in order
    exit_code,       \* the argument of sys.exit, once called
    stdout,          \* what main has printed
    GOLF_GENIUS_API_KEY  \* the environment variable read into API_KEY

execVars == <<pc, method, endpoint, kwargs_headers, attempt_number, requests,
              received, slept, outcome, _client, clients_created>>
callVars == <<method, endpoint, kwargs_headers, attempt_number, requests,
              received, slept, outcome, _client, clients_created>>
sanVars == <<data, once, twice>>
toolVars == <<key, extracted, tool, args, tool_outcome, client>>
serverVars == <<tasks, process, registered, exit_code, stdout, GOLF_GENIUS_API_KEY>>
vars == <<pc, method, endpoint, kwargs_headers, attempt_number, requests,
          received, slept, outcome, _client, clients_created, data, once, twice,
          key, extracted, tool, args, tool_outcome, client, kwargs_params,
          tasks, process, registered, exit_code, stdout, GOLF_GENIUS_API_KEY>>

(***************************************************************************)
(* Bounds of the model.                                                    *)
(***************************************************************************)
MaxEndpointLen == 2
MaxListLen == 1
MaxClients == 2
MaxWaitAttempt == 6

(***************************************************************************)
(* Text helpers.                                                           *)
(***************************************************************************)
Min(a, b) == IF a < b THEN a ELSE b
Max(a, b) == IF a < b THEN b ELSE a

DigitChars == <<"0", "1", "2", "3", "4", "5", "6", "7", "8", "9">>

IsDigit(c) == \E i \in 1..10 : DigitChars[i] = c

DigitValue(c) == CHOOSE i \in 0..9 : DigitChars[i + 1] = c

RECURSIVE DecNat(_)
DecNat(n) ==
    IF n < 10 THEN <<DigitChars[n + 1]>>
    ELSE DecNat(n \div 10) \o <<DigitChars[(n % 10) + 1]>>

\* str(n) for an int n
str_int(n) == IF n < 0 THEN <<"-">> \o DecNat(-n) ELSE DecNat(n)

RECURSIVE lstrip(_, _)
lstrip(s, c) == IF s # <<>> /\ Head(s) = c THEN lstrip(Tail(s), c) ELSE s

RECURSIVE rstrip(_, _)
rstrip(s, c) ==
    IF s # <<>> /\ s[Len(s)] = c THEN rstrip(SubSeq(s, 1, Len(s) - 1), c) ELSE s

RECURSIVE DigitsValue(_)
DigitsValue(s) ==
    IF s = <<>> THEN 0
    ELSE 10 * DigitsValue(SubSeq(s, 1, Len(s) - 1)) + DigitValue(s[Len(s)])

\* int(s) for a str s: surrounding blanks are ignored, one sign is allowed,
\* then at least one digit and nothing else; anything else raises ValueError.
int_body(s) == rstrip(lstrip(s, " "), " ")
int_unsigned(s) ==
    IF int_body(s) # <<>> /\ Head(int_body(s)) \in {"+", "-"}
    THEN Tail(int_body(s)) ELSE int_body(s)
int_ok(s) ==
    /\ int_unsigned(s) # <<>>
    /\ \A i \in 1..Len(int_unsigned(s)) : IsDigit(int_unsigned(s)[i])
int_str(s) ==
    IF Head(int_body(s)) = "-" THEN 0 - DigitsValue(int_unsigned(s))
    ELSE DigitsValue(int_unsigned(s))

\* str.upper()
upper(s) ==
    LET UpperChar(c) ==
            CASE c = "g" -> "G" [] c = "e" -> "E" [] c = "t" -> "T"
              [] c = "p" -> "P" [] c = "o" -> "O" [] c = "s" -> "S"
              [] c = "u" -> "U" [] c = "d" -> "D" [] c = "l" -> "L"
              [] OTHER -> c
    IN  [i \in 1..Len(s) |-> UpperChar(s[i])]

(***************************************************************************)
(* Python values: one record shape for int, str, list and dict.  A dict    *)
(* keeps its keys in insertion order, as Python's does.                    *)
(***************************************************************************)
IntV(n) == [t |-> "int", i |-> n, s |-> <<>>, keys |-> <<>>, items |-> <<>>]
StrV(x) == [t |-> "str", i |-> 0, s |-> x, keys |-> <<>>, items |-> <<>>]
ListV(xs) == [t |-> "list", i |-> 0, s |-> <<>>, keys |-> <<>>, items |-> xs]
DictV(ks, xs) == [t |-> "dict", i |-> 0, s |-> <<>>, keys |-> ks, items |-> xs]
NoneV == [t |-> "None", i |-> 0, s |-> <<>>, keys |-> <<>>, items |-> <<>>]
BoolV(b) ==
    [t |-> "bool", i |-> IF b THEN 1 ELSE 0, s |-> <<>>, keys |-> <<>>, items |-> <<>>]

HasKey(d, k) == \E j \in 1..Len(d.keys) : d.keys[j] = k
Get(d, k) == d.items[CHOOSE j \in 1..Len(d.keys) : d.keys[j] = k]

\* Optional[int] values
\* the arguments of a tool handler; None for one that the handler lacks
NoArgs ==
    [event_id |-> NoneV, round_id |-> NoneV, tournament_id |-> NoneV,
     format |-> NoneV, name |-> NoneV, start_date |-> NoneV, date |-> NoneV,
     email |-> NoneV, external_id |-> NoneV, last_name |-> NoneV,
     players |-> NoneV, season_id |-> NoneV, archived |-> NoneV, page |-> NoneV,
     player_id |-> NoneV, photo |-> NoneV, include_all_custom_fields |-> NoneV]

NoneInt == [some |-> FALSE, v |-> 0]
SomeInt(n) == [some |-> TRUE, v |-> n]

(***************************************************************************)
(* Configuration.                                                          *)
(***************************************************************************)
API_KEY == <<"K">>
BASE_URL == <<"https:", "/", "/", "www.golfgenius.com", "/", "api_v2">>
GET == <<"G", "E", "T">>

\* a module whose create_event is under a decorator as well
DECORATED_with_create_event ==
    <<"health_check", "list_seasons", "list_events", "create_event">>

\* the handlers under an @mcp.tool() decorator, in the order of the module
DECORATED ==
    <<"health_check", "list_seasons", "list_categories", "list_directories",
      "list_master_roster", "get_master_roster_member", "get_player_events",
      "list_events", "get_event_roster", "list_event_rounds",
      "get_round_tee_sheet", "get_round_tournaments", "get_tournament_results",
      "get_event_courses", "get_event_divisions">>

\* the two concurrent callers of the executor, and a caller that has not started
Tasks == {"task1", "task2"}
NoTask == [pc |-> "ready", attempt_number |-> 0, client |-> 0, kind |-> "pending"]

\* the module has been imported with the credential set; main has not run
ServerLoaded ==
    /\ tasks = [t \in Tasks |-> NoTask]
    /\ process = "imported"
    /\ registered = DECORATED
    /\ exit_code = NoneInt
    /\ stdout = <<>>
    /\ GOLF_GENIUS_API_KEY = StrV(API_KEY)

(***************************************************************************)
(* Exceptions.  One record shape serves the program's own exceptions and   *)
(* the ones httpx and the standard library raise: type, the fields of      *)
(* GolfGeniusAPIError, str(e), and for httpx.HTTPStatusError the response. *)
(***************************************************************************)
Exception(type, str, response_status, response_text) ==
    [type |-> type, status_code |-> 0, message |-> <<>>, retry_after |-> NoneInt,
     str |-> str, response_status |-> response_status,
     response_text |-> response_text]

GolfGeniusAPIError(type, status_code, message, retry_after) ==
    [type |-> type, status_code |-> status_code, message |-> message,
     retry_after |-> retry_after,
     str |-> <<"API Error ">> \o str_int(status_code) \o <<":", " ">> \o message,
     response_status |-> 0, response_text |-> <<>>]

\* f"Rate limited. Retry after {retry_after}s" if retry_after else "Rate limited."
RateLimitError(retry_after) ==
    GolfGeniusAPIError("RateLimitError", 429,
        IF retry_after.some /\ retry_after.v # 0
        THEN <<"Rate limited. Retry after ">> \o str_int(retry_after.v) \o <<"s">>
        ELSE <<"Rate limited.">>,
        retry_after)

\* an AuthenticationError that carries 403
AuthenticationError_403 ==
    GolfGeniusAPIError("AuthenticationError", 403,
                       <<"Invalid or expired API key.">>, NoneInt)

AuthenticationError ==
    GolfGeniusAPIError("AuthenticationError", 401,
                       <<"Invalid or expired API key.">>, NoneInt)

\* a NotFoundError built with the default resource name
NotFoundError_default(resource) ==
    GolfGeniusAPIError("NotFoundError", 404, <<"Resource", " not found.">>, NoneInt)

NotFoundError(resource) ==
    GolfGeniusAPIError("NotFoundError", 404, resource \o <<" not found.">>, NoneInt)

NoException == Exception("", <<>>, 0, <<>>)

\* httpx's exception classes that are subclasses of httpx.TimeoutException
TimeoutExceptions == {"TimeoutException", "ConnectTimeout", "ReadTimeout",
                      "WriteTimeout", "PoolTimeout"}

(***************************************************************************)
(* The shared client, the URL and the write headers.                       *)
(***************************************************************************)
NoClient == [exists |-> FALSE, id |-> 0, is_closed |-> FALSE]

\* a _get_client that constructs a client on every call
_get_client_always_new(c, created) ==
    [exists |-> TRUE, id |-> created + 1, is_closed |-> FALSE]

\* the value of the global _client after _get_client() has run
_get_client(c, created) ==
    IF ~c.exists \/ c.is_closed
    THEN [exists |-> TRUE, id |-> created + 1, is_closed |-> FALSE]
    ELSE c

\* a _build_url that strips one leading slash only
_build_url_strip_one(m, e) ==
    IF upper(m) = GET
    THEN BASE_URL \o <<"/">> \o API_KEY \o <<"/">>
             \o (IF e # <<>> /\ Head(e) = "/" THEN Tail(e) ELSE e)
    ELSE BASE_URL \o <<"/">> \o (IF e # <<>> /\ Head(e) = "/" THEN Tail(e) ELSE e)

_build_url(m, e) ==
    IF upper(m) = GET
    THEN BASE_URL \o <<"/">> \o API_KEY \o <<"/">> \o lstrip(e, "/")
    ELSE BASE_URL \o <<"/">> \o lstrip(e, "/")

_write_headers ==
    DictV(<<"Authorization", "Content-Type">>,
          <<StrV(<<"Bearer ">> \o API_KEY), StrV(<<"application/json">>)>>)

\* d[k] = v
dict_set(d, k, v) ==
    IF HasKey(d, k)
    THEN DictV(d.keys, [j \in 1..Len(d.keys) |->
                           IF d.keys[j] = k THEN v ELSE d.items[j]])
    ELSE DictV(Append(d.keys, k), Append(d.items, v))

\* d.update(o)
RECURSIVE dict_update_from(_, _, _)
dict_update_from(d, o, j) ==
    IF j > Len(o.keys) THEN d
    ELSE dict_update_from(dict_set(d, o.keys[j], o.items[j]), o, j + 1)

dict_update(d, o) == dict_update_from(d, o, 1)

NoHeaders == [some |-> FALSE, v |-> DictV(<<>>, <<>>)]
NoParams == [some |-> FALSE, v |-> DictV(<<>>, <<>>)]
Params(d) == [some |-> TRUE, v |-> d]
Headers(d) == [some |-> TRUE, v |-> d]

\* a merge in which the caller's headers win over the write headers
request_headers_caller_wins(m, h) ==
    IF upper(m) # GET
    THEN Headers(dict_update(_write_headers,
                             IF h.some THEN h.v ELSE DictV(<<>>, <<>>)))
    ELSE h

\* kwargs["headers"] as client.request receives it (lines 196-200)
request_headers(m, h) ==
    IF upper(m) # GET
    THEN Headers(dict_update(IF h.some THEN h.v ELSE DictV(<<>>, <<>>),
                             _write_headers))
    ELSE h

(***************************************************************************)
(* One attempt of make_api_request: the try body, then the except clauses. *)
(***************************************************************************)
Returned(v) == [kind |-> "returned", value |-> v, exc |-> NoException]
Raised(x) == [kind |-> "raised", value |-> NoneV, exc |-> x]
Pending == [kind |-> "pending", value |-> NoneV, exc |-> NoException]

ErrorMap(msg) == DictV(<<"error">>, <<StrV(msg)>>)

\* a raise_for_status() that lets redirects through, as it does for 2xx
is_success_or_redirect(status_code) == 200 <= status_code /\ status_code <= 399

\* response.is_success, the test of response.raise_for_status()
is_success(status_code) == 200 <= status_code /\ status_code <= 299

\* a status test that forgets 403
auth_statuses_without_403 == {401}

\* line 212: the statuses that raise AuthenticationError
auth_statuses == {401, 403}

\* repr(s) of a str without quotes or backslashes in it
repr_str(s) == <<"'">> \o s \o <<"'">>

\* lines 204-221: what the try body returns or raises for the upstream's answer
try_body(e, a) ==
    IF a.kind = "exception"
    THEN Raised(Exception(a.exc_type, a.exc_message, 0, <<>>))
    ELSE IF a.status_code = 429
    THEN IF a.retry_after.some /\ a.retry_after.v # <<>>
         THEN IF int_ok(a.retry_after.v)
              THEN Raised(RateLimitError(SomeInt(int_str(a.retry_after.v))))
              ELSE Raised(Exception("ValueError",
                       <<"invalid literal for int() with base 10: ">>
                           \o repr_str(a.retry_after.v), 0, <<>>))
         ELSE Raised(RateLimitError(NoneInt))
    ELSE IF a.status_code \in auth_statuses
    THEN Raised(AuthenticationError)
    ELSE IF a.status_code = 404
    THEN Raised(NotFoundError(e))
    ELSE IF ~is_success(a.status_code)
    THEN Raised(Exception("HTTPStatusError", <<"HTTPStatusError">>,
                          a.status_code, a.text))
    ELSE IF a.json_ok
    THEN Returned(a.json)
    ELSE Raised(Exception("JSONDecodeError", <<"Expecting value">>, 0, <<>>))

\* an except clause that lets the exception through
except_Exception_reraise(r) == r

\* an except clause that returns the bare message
except_Exception_bare_message(r) == Returned(ErrorMap(r.exc.str))

\* lines 234-236: except Exception as e
except_Exception(r) == Returned(ErrorMap(<<"Request failed: ">> \o r.exc.str))

\* lines 223-236: the except clauses applied to what the try body did
except_clauses(r) ==
    IF r.kind = "returned" THEN r
    ELSE IF r.exc.type \in {"RateLimitError", "AuthenticationError", "NotFoundError"}
    THEN r
    ELSE IF r.exc.type = "HTTPStatusError"
    THEN Returned(ErrorMap(<<"API Error ">> \o str_int(r.exc.response_status)
                           \o <<":", " ">> \o r.exc.response_text))
    ELSE IF r.exc.type \in TimeoutExceptions
    THEN Returned(ErrorMap(<<"Request timed out. Please try again.">>))
    ELSE IF r.exc.type = "ConnectError"
    THEN Returned(ErrorMap(
             <<"Unable to connect to Golf Genius API. Check your network connection.">>))
    ELSE except_Exception(r)

attempt(e, a) == except_clauses(try_body(e, a))

(***************************************************************************)
(* The retry decorator (tenacity).                                         *)
(***************************************************************************)
StopAfterAttempt == 3
WaitMultiplier == 1
WaitMin == 2
WaitMax == 30

\* retry_if_exception_type(RateLimitError)
retry_condition(r) == r.kind = "raised" /\ r.exc.type = "RateLimitError"

\* stop_after_attempt(3)
stop_condition(n) == n >= StopAfterAttempt

\* a wait that is not clamped to [min, max]
wait_exponential_unclamped(n) == WaitMultiplier * (2 ^ (n - 1))

\* wait_exponential(multiplier=1, min=2, max=30) after attempt n
wait_exponential(n) ==
    Max(Max(0, WaitMin), Min(WaitMultiplier * (2 ^ (n - 1)), WaitMax))

(***************************************************************************)
(* Inputs of the model.                                                    *)
(***************************************************************************)
Methods == {GET, <<"g", "e", "t">>, <<"P", "O", "S", "T">>,
            <<"D", "E", "L", "E", "T", "E">>}

Endpoints == UNION {[1..n -> {"/", "e", "K"}] : n \in 0..MaxEndpointLen}

CallerHeaders ==
    {NoHeaders,
     Headers(DictV(<<"X-Trace", "authorization">>,
                   <<StrV(<<"t">>), StrV(<<"Basic x">>)>>)),
     Headers(DictV(<<"Content-Type", "X-Trace", "Authorization">>,
                   <<StrV(<<"text/plain">>), StrV(<<"t">>), StrV(<<"Basic x">>)>>))}

NoRetryAfter == [some |-> FALSE, v |-> <<>>]
RetryAfter(s) == [some |-> TRUE, v |-> s]

Response(status_code, retry_after, text, json_ok, json) ==
    [kind |-> "response", status_code |-> status_code, retry_after |-> retry_after,
     text |-> text, json_ok |-> json_ok, json |-> json,
     exc_type |-> "", exc_message |-> <<>>]

TransportException(type, message) ==
    [kind |-> "exception", status_code |-> 0, retry_after |-> NoRetryAfter,
     text |-> <<>>, json_ok |-> FALSE, json |-> NoneV,
     exc_type |-> type, exc_message |-> message]

Answers ==
    {Response(200, NoRetryAfter, <<"[]">>, TRUE, ListV(<<>>)),
     Response(201, NoRetryAfter, <<"{seasons}">>, TRUE,
              DictV(<<"seasons">>, <<ListV(<<>>)>>)),
     Response(204, NoRetryAfter, <<>>, FALSE, NoneV),
     Response(301, NoRetryAfter, <<"oops">>, FALSE, NoneV),
     Response(400, NoRetryAfter, <<>>, FALSE, NoneV),
     Response(500, NoRetryAfter, <<"oops">>, FALSE, NoneV)}
    \cup {Response(sc, NoRetryAfter, <<>>, FALSE, NoneV) : sc \in {401, 403, 404}}
    \cup {Response(429, ra, <<>>, FALSE, NoneV) : ra \in {NoRetryAfter, RetryAfter(<<>>), RetryAfter(<<"1", "2">>),
                  RetryAfter(<<"W", "e", "d">>)}}
    \cup {TransportException(ty, <<"failed">>) :
              ty \in {"ReadTimeout", "ConnectTimeout", "ConnectError",
                      "ReadError", "RuntimeError"}}

(***************************************************************************)
(* make_api_request as a state machine.  The call suspends at the await of *)
(* client.request and, between attempts, in tenacity's sleep.              *)
(***************************************************************************)
Init ==
    /\ pc = "idle"
    /\ method = <<>>
    /\ endpoint = <<>>
    /\ kwargs_headers = NoHeaders
    /\ attempt_number = 0
    /\ requests = <<>>
    /\ received = <<>>
    /\ slept = <<>>
    /\ outcome = Pending
    /\ _client = NoClient
    /\ clients_created = 0
    /\ data = NoneV
    /\ once = NoneV
    /\ twice = NoneV
    /\ key = ""
    /\ extracted = NoneV
    /\ tool = ""
    /\ args = NoArgs
    /\ tool_outcome = Pending
    /\ client = 0
    /\ kwargs_params = NoParams
    /\ ServerLoaded

\* make_api_request(method, endpoint, **kwargs) is entered
make_api_request_enter(m, e, h) ==
    /\ pc' = "attempt"
    /\ method' = m
    /\ endpoint' = e
    /\ kwargs_headers' = h
    /\ attempt_number' = 1
    /\ UNCHANGED <<requests, received, slept, outcome, _client, clients_created>>

\* a caller invokes make_api_request(method, endpoint, **kwargs)
make_api_request_call(m, e, h) ==
    /\ pc = "idle"
    /\ make_api_request_enter(m, e, h)
    /\ UNCHANGED sanVars
    /\ UNCHANGED serverVars
    /\ UNCHANGED kwargs_params
    /\ UNCHANGED toolVars

\* lines 193-204: get the client, build the request, issue it and suspend
make_api_request_send ==
    /\ pc = "attempt"
    /\ _client' = _get_client(_client, clients_created)
    /\ clients_created' = IF _client' = _client THEN clients_created
                          ELSE clients_created + 1
    /\ requests' = Append(requests,
                          [method |-> method,
                           url |-> _build_url(method, endpoint),
                           headers |-> request_headers(method, kwargs_headers),
                           params |-> kwargs_params,
                           client |-> _client'.id])
    /\ pc' = "awaiting"
    /\ UNCHANGED <<method, endpoint, kwargs_headers, attempt_number, received,
                   slept, outcome>>
    /\ UNCHANGED sanVars
    /\ UNCHANGED serverVars
    /\ UNCHANGED kwargs_params
    /\ UNCHANGED toolVars

\* lines 204-236 and the decorator's decision: the answer arrives, the
\* attempt ends, and tenacity either retries or lets the result through
make_api_request_receive(a) ==
    /\ pc = "awaiting"
    /\ received' = Append(received, a)
    /\ IF retry_condition(attempt(endpoint, a)) /\ ~stop_condition(attempt_number)
       THEN /\ pc' = "backoff"
            /\ UNCHANGED outcome
       ELSE /\ pc' = "done"
            /\ outcome' = attempt(endpoint, a)
    /\ UNCHANGED <<method, endpoint, kwargs_headers, attempt_number, requests,
                   slept, _client, clients_created>>
    /\ UNCHANGED sanVars
    /\ UNCHANGED serverVars
    /\ UNCHANGED kwargs_params
    /\ UNCHANGED toolVars

\* tenacity sleeps, then starts the next attempt
retry_wait ==
    /\ pc = "backoff"
    /\ slept' = Append(slept, wait_exponential(attempt_number))
    /\ attempt_number' = attempt_number + 1
    /\ pc' = "attempt"
    /\ UNCHANGED <<method, endpoint, kwargs_headers, requests, received, outcome,
                   _client, clients_created>>
    /\ UNCHANGED sanVars
    /\ UNCHANGED serverVars
    /\ UNCHANGED kwargs_params
    /\ UNCHANGED toolVars

Next ==
    \/ \E m \in Methods, e \in Endpoints, h \in CallerHeaders :
           make_api_request_call(m, e, h)
    \/ make_api_request_send
    \/ \E a \in Answers : make_api_request_receive(a)
    \/ retry_wait

Spec == Init /\ [][Next]_vars

(***************************************************************************)
(* The response normalizer: str(), repr() and _sanitize_ids.               *)
(***************************************************************************)
RECURSIVE repr(_)
RECURSIVE repr_items(_, _)
RECURSIVE repr_pairs(_, _, _)

\* ", ".join(repr(x) for x in xs[j:])
repr_items(xs, j) ==
    IF j > Len(xs) THEN <<>>
    ELSE repr(xs[j]) \o (IF j < Len(xs) THEN <<",", " ">> ELSE <<>>)
             \o repr_items(xs, j + 1)

\* ", ".join(repr(k) + ": " + repr(v)) over the dict's entries from the j-th
repr_pairs(ks, xs, j) ==
    IF j > Len(ks) THEN <<>>
    ELSE <<"'", ks[j], "'", ":", " ">> \o repr(xs[j])
             \o (IF j < Len(ks) THEN <<",", " ">> ELSE <<>>)
             \o repr_pairs(ks, xs, j + 1)

repr(x) ==
    CASE x.t = "str" -> repr_str(x.s)
      [] x.t = "int" -> str_int(x.i)
      [] x.t = "list" -> <<"[">> \o repr_items(x.items, 1) \o <<"]">>
      [] x.t = "dict" -> <<"{">> \o repr_pairs(x.keys, x.items, 1) \o <<"}">>
      [] OTHER -> <<"N", "o", "n", "e">>

\* str(x): the text itself for a str, repr(x) for the rest
str(x) == IF x.t = "str" THEN x.s ELSE repr(x)

\* a _sanitize_ids that stringifies every "id" with repr(), its type not tested
RECURSIVE _sanitize_ids_repr(_)
_sanitize_ids_repr(d) ==
    IF d.t = "dict"
    THEN DictV(d.keys,
               [j \in 1..Len(d.keys) |->
                   IF d.keys[j] = "id" /\ HasKey(d, "id_str")
                   THEN StrV(str(Get(d, "id_str")))
                   ELSE IF d.keys[j] = "id"
                   THEN StrV(repr(d.items[j]))
                   ELSE _sanitize_ids_repr(d.items[j])])
    ELSE IF d.t = "list"
    THEN ListV([j \in 1..Len(d.items) |-> _sanitize_ids_repr(d.items[j])])
    ELSE d

\* a _sanitize_ids that returns a list as it is
RECURSIVE _sanitize_ids_no_lists(_)
_sanitize_ids_no_lists(d) ==
    IF d.t = "dict"
    THEN DictV(d.keys,
               [j \in 1..Len(d.keys) |->
                   IF d.keys[j] = "id" /\ HasKey(d, "id_str")
                   THEN StrV(str(Get(d, "id_str")))
                   ELSE IF d.keys[j] = "id" /\ d.items[j].t = "int"
                   THEN StrV(str_int(d.items[j].i))
                   ELSE _sanitize_ids_no_lists(d.items[j])])
    ELSE d

\* a _sanitize_ids that prefers an int "id" to the "id_str" beside it
RECURSIVE _sanitize_ids_id_first(_)
_sanitize_ids_id_first(d) ==
    IF d.t = "dict"
    THEN DictV(d.keys,
               [j \in 1..Len(d.keys) |->
                   IF d.keys[j] = "id" /\ d.items[j].t = "int"
                   THEN StrV(str_int(d.items[j].i))
                   ELSE IF d.keys[j] = "id" /\ HasKey(d, "id_str")
                   THEN StrV(str(Get(d, "id_str")))
                   ELSE _sanitize_ids_id_first(d.items[j])])
    ELSE IF d.t = "list"
    THEN ListV([j \in 1..Len(d.items) |-> _sanitize_ids_id_first(d.items[j])])
    ELSE d

RECURSIVE _sanitize_ids(_)
_sanitize_ids(d) ==
    IF d.t = "dict"
    THEN DictV(d.keys,
               [j \in 1..Len(d.keys) |->
                   IF d.keys[j] = "id" /\ HasKey(d, "id_str")
                   THEN StrV(str(Get(d, "id_str")))
                   ELSE IF d.keys[j] = "id" /\ d.items[j].t = "int"
                   THEN StrV(str_int(d.items[j].i))
                   ELSE _sanitize_ids(d.items[j])])
    ELSE IF d.t = "list"
    THEN ListV([j \in 1..Len(d.items) |-> _sanitize_ids(d.items[j])])
    ELSE d

(***************************************************************************)
(* Inputs of _sanitize_ids: ints and strs, lists and dicts of them, and    *)
(* dicts and lists of those.                                               *)
(***************************************************************************)
Leaves == {IntV(7), IntV(0 - 12), StrV(<<"7">>)}

ListsOver(S) == {ListV(xs) : xs \in UNION {[1..n -> S] : n \in 0..MaxListLen}}

DictsOver(KS, S) == UNION {{DictV(ks, xs) : xs \in [1..Len(ks) -> S]} : ks \in KS}

InnerValues ==
    Leaves \cup ListsOver(Leaves)
    \cup DictsOver({<<>>, <<"id">>, <<"id", "id_str">>}, Leaves)

SanitizeInputs ==
    InnerValues \cup ListsOver(InnerValues)
    \cup DictsOver({<<"id">>, <<"name">>, <<"id", "id_str">>, <<"id_str", "id">>,
                    <<"id", "name">>}, InnerValues)
    \cup {DictV(<<"id", "id_str", "name">>, <<a, b, c>>) :
              a \in Leaves, b \in InnerValues, c \in InnerValues}

(***************************************************************************)
(* _sanitize_ids applied to a value, and again to its result.              *)
(***************************************************************************)
InitSanitize ==
    /\ pc = "sanitize"
    /\ method = <<>>
    /\ endpoint = <<>>
    /\ kwargs_headers = NoHeaders
    /\ attempt_number = 0
    /\ requests = <<>>
    /\ received = <<>>
    /\ slept = <<>>
    /\ outcome = Pending
    /\ _client = NoClient
    /\ clients_created = 0
    /\ data \in SanitizeInputs
    /\ once = NoneV
    /\ twice = NoneV
    /\ key = ""
    /\ extracted = NoneV
    /\ tool = ""
    /\ args = NoArgs
    /\ tool_outcome = Pending
    /\ client = 0
    /\ kwargs_params = NoParams
    /\ ServerLoaded

sanitize_first ==
    /\ pc = "sanitize"
    /\ once' = _sanitize_ids(data)
    /\ pc' = "once"
    /\ UNCHANGED <<data, twice>>
    /\ UNCHANGED callVars
    /\ UNCHANGED toolVars
    /\ UNCHANGED serverVars
    /\ UNCHANGED kwargs_params

sanitize_second ==
    /\ pc = "once"
    /\ twice' = _sanitize_ids(once)
    /\ pc' = "twice"
    /\ UNCHANGED <<data, once>>
    /\ UNCHANGED callVars
    /\ UNCHANGED toolVars
    /\ UNCHANGED serverVars
    /\ UNCHANGED kwargs_params

NextSanitize == sanitize_first \/ sanitize_second

SpecSanitize == InitSanitize /\ [][NextSanitize]_vars

(***************************************************************************)
(* _extract applied to a decoded body and a key.                           *)
(***************************************************************************)
\* an _extract that returns a list as it is
_extract_list_as_is(result, k) ==
    IF result.t = "list" THEN result
    ELSE IF result.t = "dict"
    THEN IF HasKey(result, "error") THEN result
         ELSE _sanitize_ids(IF HasKey(result, k) THEN Get(result, k) ELSE result)
    ELSE result

\* an _extract that looks for the key before it looks for "error"
_extract_key_first(result, k) ==
    IF result.t = "list" THEN _sanitize_ids(result)
    ELSE IF result.t = "dict"
    THEN IF HasKey(result, k) THEN _sanitize_ids(Get(result, k))
         ELSE IF HasKey(result, "error") THEN result
         ELSE _sanitize_ids(result)
    ELSE result

_extract(result, k) ==
    IF result.t = "list" THEN _sanitize_ids(result)
    ELSE IF result.t = "dict"
    THEN IF HasKey(result, "error") THEN result
         ELSE _sanitize_ids(IF HasKey(result, k) THEN Get(result, k) ELSE result)
    ELSE result

ExtractKeys == {"events", "seasons"}

ExtractInputs ==
    Leaves \cup {NoneV} \cup ListsOver(InnerValues)
    \cup DictsOver({<<>>, <<"events">>, <<"other">>, <<"error">>,
                    <<"error", "events">>, <<"id", "events">>, <<"id", "other">>},
                   InnerValues)

InitExtract ==
    /\ pc = "extract"
    /\ method = <<>>
    /\ endpoint = <<>>
    /\ kwargs_headers = NoHeaders
    /\ attempt_number = 0
    /\ requests = <<>>
    /\ received = <<>>
    /\ slept = <<>>
    /\ outcome = Pending
    /\ _client = NoClient
    /\ clients_created = 0
    /\ data \in ExtractInputs
    /\ once = NoneV
    /\ twice = NoneV
    /\ key \in ExtractKeys
    /\ extracted = NoneV
    /\ tool = ""
    /\ args = NoArgs
    /\ tool_outcome = Pending
    /\ client = 0
    /\ kwargs_params = NoParams
    /\ ServerLoaded

extract_call ==
    /\ pc = "extract"
    /\ extracted' = _extract(data, key)
    /\ pc' = "extracted"
    /\ UNCHANGED <<key, tool, args, tool_outcome, client>>
    /\ UNCHANGED callVars
    /\ UNCHANGED sanVars
    /\ UNCHANGED serverVars
    /\ UNCHANGED kwargs_params

NextExtract == extract_call

SpecExtract == InitExtract /\ [][NextExtract]_vars

(***************************************************************************)
(* make_raw_request: the text of the response, or a text that says what    *)
(* failed.                                                                 *)
(***************************************************************************)
\* httpx: the first words of the message of raise_for_status()
error_type(status_code) ==
    CASE status_code \div 100 = 1 -> "Informational response"
      [] status_code \div 100 = 3 -> "Redirect response"
      [] status_code \div 100 = 4 -> "Client error"
      [] status_code \div 100 = 5 -> "Server error"
      [] OTHER -> ""

\* httpx: response.reason_phrase, for the statuses of the model
reason_phrase(status_code) ==
    CASE status_code = 301 -> "Moved Permanently"
      [] status_code = 400 -> "Bad Request"
      [] status_code = 401 -> "Unauthorized"
      [] status_code = 403 -> "Forbidden"
      [] status_code = 404 -> "Not Found"
      [] status_code = 429 -> "Too Many Requests"
      [] status_code = 500 -> "Internal Server Error"
      [] OTHER -> ""

\* str(e) of the HTTPStatusError that raise_for_status() raises
HTTPStatusError_str(status_code, url) ==
    <<error_type(status_code), " '">> \o str_int(status_code)
        \o <<" ", reason_phrase(status_code), "' for url '">> \o url
        \o <<"'", "\nFor more information check: ",
             "https://developer.mozilla.org/en-US/docs/Web/HTTP/Status/">>
        \o str_int(status_code)

\* lines 243-246: what the try body returns or raises for the upstream's answer
make_raw_request_try(a, url) ==
    IF a.kind = "exception"
    THEN Raised(Exception(a.exc_type, a.exc_message, 0, <<>>))
    ELSE IF ~is_success(a.status_code)
    THEN Raised(Exception("HTTPStatusError",
                          HTTPStatusError_str(a.status_code, url),
                          a.status_code, a.text))
    ELSE Returned(StrV(a.text))

\* an except clause that answers with an error map
make_raw_request_except_map(r) ==
    IF r.kind = "returned" THEN r
    ELSE Returned(ErrorMap(<<"Error fetching response: ">> \o r.exc.str))

\* an except clause that lets the exception through
make_raw_request_except_reraise(r) == r

\* lines 247-249: except Exception as e
make_raw_request_except(r) ==
    IF r.kind = "returned" THEN r
    ELSE Returned(StrV(<<"Error fetching response: ">> \o r.exc.str))

\* lines 241-244: get the client, build the URL, issue the request and suspend
make_raw_request_enter(m, e, h) ==
    /\ method' = m
    /\ endpoint' = e
    /\ kwargs_headers' = h
    /\ _client' = _get_client(_client, clients_created)
    /\ clients_created' = IF _client' = _client THEN clients_created
                          ELSE clients_created + 1
    /\ requests' = Append(requests,
                          [method |-> m,
                           url |-> _build_url(m, e),
                           headers |-> h,
                           params |-> kwargs_params,
                           client |-> _client'.id])
    /\ pc' = "raw_awaiting"
    /\ UNCHANGED <<attempt_number, received, slept, outcome>>

\* a caller invokes make_raw_request(method, endpoint, **kwargs)
make_raw_request_call(m, e, h) ==
    /\ pc = "idle"
    /\ make_raw_request_enter(m, e, h)
    /\ UNCHANGED sanVars
    /\ UNCHANGED serverVars
    /\ UNCHANGED kwargs_params
    /\ UNCHANGED toolVars

\* lines 244-249: the answer arrives and the call returns
make_raw_request_receive(a) ==
    /\ pc = "raw_awaiting"
    /\ received' = Append(received, a)
    /\ outcome' = make_raw_request_except(
                      make_raw_request_try(a, requests[Len(requests)].url))
    /\ pc' = "raw_done"
    /\ UNCHANGED <<method, endpoint, kwargs_headers, attempt_number, requests,
                   slept, _client, clients_created>>
    /\ UNCHANGED sanVars
    /\ UNCHANGED serverVars
    /\ UNCHANGED kwargs_params
    /\ UNCHANGED toolVars

NextRaw ==
    \/ \E m \in Methods, e \in Endpoints, h \in CallerHeaders :
           make_raw_request_call(m, e, h)
    \/ \E a \in Answers : make_raw_request_receive(a)

SpecRaw == Init /\ [][NextRaw]_vars

(***************************************************************************)
(* The tool handlers: validation of the arguments, the request, and what   *)
(* the handler makes of the executor's result.                             *)
(***************************************************************************)
VERSION == <<"0.2.4">>
POST == <<"P", "O", "S", "T">>
PUT == <<"P", "U", "T">>

Whitespace == {" ", "\t", "\n", "\r"}

\* the text a pattern's $ ends at: the end, or just before a final newline
before_final_newline(s) ==
    IF s # <<>> /\ s[Len(s)] = "\n" THEN SubSeq(s, 1, Len(s) - 1) ELSE s

\* a date pattern that accepts any separators
DATE_PATTERN_match_any_separator(s) ==
    LET b == before_final_newline(s)
    IN  /\ Len(b) = 10
        /\ \A i \in 1..10 : i \notin {5, 8} => IsDigit(b[i])

\* DATE_PATTERN.match(s): ^\d{4}-\d{2}-\d{2}$
DATE_PATTERN_match(s) ==
    LET b == before_final_newline(s)
    IN  /\ Len(b) = 10
        /\ \A i \in 1..10 : IF i \in {5, 8} THEN b[i] = "-" ELSE IsDigit(b[i])

\* re.match(r"^[^@\s]+@[^@\s]+\.[^@\s]+$", s)
email_match(s) ==
    LET b == before_final_newline(s)
    IN  \E i \in 1..Len(b), j \in 1..Len(b) :
            /\ 1 < i /\ i + 1 < j /\ j < Len(b)
            /\ b[i] = "@"
            /\ b[j] = "."
            /\ \A k \in 1..Len(b) : k # i => b[k] \notin ({"@"} \cup Whitespace)

\* bool(v)
truthy(v) ==
    CASE v.t = "None" -> FALSE
      [] v.t = "int" -> v.i # 0
      [] v.t = "str" -> v.s # <<>>
      [] v.t = "list" -> v.items # <<>>
      [] OTHER -> v.keys # <<>>

NoError == [some |-> FALSE, v |-> <<>>]
Error(msg) == [some |-> TRUE, v |-> msg]

\* the first check of a handler that fails, if any does
first_error(checks) ==
    IF \E j \in 1..Len(checks) : checks[j].some
    THEN checks[CHOOSE j \in 1..Len(checks) :
                    /\ checks[j].some
                    /\ \A i \in 1..(j - 1) : ~checks[i].some]
    ELSE NoError

\* try: int(x), <= 0 -> error; except (ValueError, TypeError) -> error
read_id(name, v) ==
    IF v.t = "int"
    THEN IF v.i <= 0 THEN Error(<<name, " must be a positive integer.">>)
         ELSE NoError
    ELSE IF v.t = "str" /\ int_ok(v.s)
    THEN IF int_str(v.s) <= 0 THEN Error(<<name, " must be a positive integer.">>)
         ELSE NoError
    ELSE Error(<<name, " must be a valid integer.">>)

\* if x <= 0 -> error, for an int x
write_id(name, v) ==
    IF v.i <= 0 THEN Error(<<name, " must be a positive integer.">>) ELSE NoError

\* pydantic: the errors of a str field with min_length=1
string_field_errors(field, v, required) ==
    IF v.t = "None"
    THEN IF required THEN <<[field |-> field, msg |-> "Input should be a valid string"]>>
         ELSE <<>>
    ELSE IF Len(v.s) < 1
    THEN <<[field |-> field, msg |-> "String should have at least 1 character"]>>
    ELSE <<>>

\* lines 82-87 and 97-102: validate_date
validate_date(field, v) ==
    IF v.t # "None" /\ ~DATE_PATTERN_match(v.s)
    THEN <<[field |-> field, msg |-> "Value error, Date must be in YYYY-MM-DD format"]>>
    ELSE <<>>

\* lines 113-118: validate_email
validate_email(field, v) ==
    IF v.t # "None" /\ ~email_match(v.s)
    THEN <<[field |-> field, msg |-> "Value error, Invalid email format"]>>
    ELSE <<>>

RECURSIVE error_lines(_, _)
error_lines(errs, j) ==
    IF j > Len(errs) THEN <<>>
    ELSE <<"\n", errs[j].field, "\n  ", errs[j].msg>> \o error_lines(errs, j + 1)

\* str(e) of pydantic's ValidationError: the count, the model, the errors
ValidationError_str(model, errs) ==
    str_int(Len(errs))
        \o <<" validation error", IF Len(errs) = 1 THEN "" ELSE "s", " for ", model>>
        \o error_lines(errs, 1)

\* except Exception as e: return {"error": f"Validation error: {e}"}
model_validate(model, errs) ==
    IF errs # <<>>
    THEN Error(<<"Validation error: ">> \o ValidationError_str(model, errs))
    ELSE NoError

EventCreate(a) ==
    string_field_errors("name", a.name, TRUE) \o validate_date("start_date", a.start_date)

EventUpdate(a) ==
    string_field_errors("name", a.name, FALSE) \o validate_date("start_date", a.start_date)

MemberRegistration(a) ==
    string_field_errors("external_id", a.external_id, TRUE)
        \o string_field_errors("last_name", a.last_name, TRUE)
        \o validate_email("email", a.email)

ApiRequest(m, e) == [raw |-> FALSE, method |-> m, endpoint |-> e, params |-> NoParams]
RawRequest(m, e) == [raw |-> TRUE, method |-> m, endpoint |-> e, params |-> NoParams]

StatusMap(status, message) ==
    DictV(<<"status", "message", "version">>,
          <<StrV(<<status>>), message, StrV(VERSION)>>)

StatusOk ==
    DictV(<<"status", "message", "version", "server">>,
          <<StrV(<<"ok">>), StrV(<<"Connected and authenticated successfully.">>),
            StrV(VERSION), StrV(<<"Golf Genius MCP Server">>)>>)

\* "error" in s, for a str s
error_in_str(s) ==
    \E i \in 1..Len(s) :
        i + 4 <= Len(s) /\ SubSeq(s, i, i + 4) = <<"e", "r", "r", "o", "r">>

\* lines 314-321: what the try body of health_check makes of the result
health_check_try(result) ==
    CASE result.t = "dict" ->
             IF HasKey(result, "error")
             THEN Returned(StatusMap("error", Get(result, "error")))
             ELSE Returned(StatusOk)
      [] result.t = "list" ->
             IF \E j \in 1..Len(result.items) :
                    result.items[j] \in {StrV(<<"error">>),
                                         StrV(<<"e", "r", "r", "o", "r">>)}
             THEN Raised(Exception("TypeError",
                      <<"list indices must be integers or slices, not str">>, 0, <<>>))
             ELSE Returned(StatusOk)
      [] result.t = "str" ->
             IF error_in_str(result.s)
             THEN Raised(Exception("TypeError",
                      <<"string indices must be integers, not 'str'">>, 0, <<>>))
             ELSE Returned(StatusOk)
      [] OTHER ->
             Raised(Exception("TypeError",
                      <<"argument of type '", result.t, "' is not iterable">>, 0, <<>>))

\* a health_check without its except AuthenticationError clause
health_check_result_no_auth_clause(o) ==
    LET r == IF o.kind = "raised" THEN o ELSE health_check_try(o.value)
    IN  IF r.kind = "returned" THEN r
        ELSE Returned(StatusMap("error", StrV(r.exc.str)))

\* a health_check without its except Exception clause
health_check_result_no_catch_all(o) ==
    LET r == IF o.kind = "raised" THEN o ELSE health_check_try(o.value)
    IN  IF r.kind = "returned" THEN r
        ELSE IF r.exc.type = "AuthenticationError"
        THEN Returned(StatusMap("auth_error",
                                StrV(<<"API key is invalid or expired.">>)))
        ELSE r

\* lines 312-326: health_check, from the outcome of make_api_request on
health_check_result(o) ==
    LET r == IF o.kind = "raised" THEN o ELSE health_check_try(o.value)
    IN  IF r.kind = "returned" THEN r
        ELSE IF r.exc.type = "AuthenticationError"
        THEN Returned(StatusMap("auth_error",
                                StrV(<<"API key is invalid or expired.">>)))
        ELSE Returned(StatusMap("error", StrV(r.exc.str)))

\* s.lower(), for the texts str(bool) gives
lower(s) ==
    LET LowerChar(c) ==
            CASE c = "T" -> "t"
              [] c = "F" -> "f"
              [] OTHER -> c
    IN  [i \in 1..Len(s) |-> LowerChar(s[i])]

\* str(b) for a bool b
str_bool(v) ==
    IF v.i = 1 THEN <<"T", "r", "u", "e">> ELSE <<"F", "a", "l", "s", "e">>

\* the URL up to its query
RECURSIVE without_query(_)
without_query(u) ==
    IF u = <<>> \/ Head(u) = "?" THEN <<>> ELSE <<Head(u)>> \o without_query(Tail(u))

\* httpx: the params as a query string, name=value joined by "&"
RECURSIVE query_string(_, _)
query_string(d, j) ==
    IF j > Len(d.keys) THEN <<>>
    ELSE <<d.keys[j], "=">> \o str(d.items[j])
             \o (IF j < Len(d.keys) THEN <<"&">> ELSE <<>>)
             \o query_string(d, j + 1)

\* httpx: the URL a request goes to; params, when given, replace the query
sent_url(r) ==
    IF ~r.params.some THEN r.url
    ELSE without_query(r.url)
             \o (IF r.params.v.keys = <<>> THEN <<>>
                 ELSE <<"?">> \o query_string(r.params.v, 1))

\* every tool handler of the module, in the order of the module
HANDLERS ==
    <<"health_check", "list_seasons", "list_categories", "list_directories",
      "list_master_roster", "get_master_roster_member", "get_player_events",
      "list_events", "create_event", "update_event", "delete_event",
      "get_event_roster", "register_member_to_event", "update_member_in_event",
      "delete_member_from_event", "list_event_rounds", "create_round",
      "update_round", "delete_round", "get_round_tee_sheet",
      "get_round_tournaments", "get_tournament_results", "get_event_courses",
      "get_event_divisions", "create_division", "update_division",
      "delete_division", "create_pairing", "update_pairing", "delete_pairing">>

\* the method each handler passes to make_api_request / make_raw_request
handler_method(t) ==
    CASE t \in {"create_event", "register_member_to_event", "create_round",
                "create_division", "create_pairing"} -> POST
      [] t \in {"update_event", "update_member_in_event", "update_round",
                "update_division", "update_pairing"} -> PUT
      [] t \in {"delete_event", "delete_member_from_event", "delete_round",
                "delete_division", "delete_pairing"} -> <<"D", "E", "L", "E", "T", "E">>
      [] OTHER -> GET

ReadTools == {"health_check", "list_seasons", "get_master_roster_member",
              "list_events", "get_tournament_results"}

WriteTools == {"create_event", "update_event", "register_member_to_event",
               "create_round", "create_pairing"}

Tools == ReadTools \cup WriteTools

\* the error map the handler returns before any request, if it returns one
tool_validate(t, a) ==
    CASE t = "get_master_roster_member" ->
             \* lines 384-385
             (IF ~truthy(a.email) \/ ~email_match(a.email.s)
              THEN Error(<<"A valid email address is required.">>)
              ELSE NoError)
      [] t = "get_tournament_results" ->
             \* lines 868-890
             (first_error(<<read_id("event_id", a.event_id),
              read_id("round_id", a.round_id),
              read_id("tournament_id", a.tournament_id),
              IF a.format.s \notin {<<"html">>, <<"json">>}
              THEN Error(<<"format must be either 'html' or 'json'.">>)
              ELSE NoError>>))
      [] t = "create_event" ->
             \* lines 465-474
             (model_validate("EventCreate", EventCreate(a)))
      [] t = "update_event" ->
             \* lines 507-524
             (first_error(<<write_id("event_id", a.event_id),
              model_validate("EventUpdate", EventUpdate(a)),
              IF a.name.t = "None" /\ a.start_date.t = "None"
              THEN Error(<<"No fields provided to update.">>)
              ELSE NoError>>))
      [] t = "register_member_to_event" ->
             \* lines 596-608
             (first_error(<<write_id("event_id", a.event_id),
              model_validate("MemberRegistration", MemberRegistration(a))>>))
      [] t = "create_round" ->
             \* lines 713-717
             (first_error(<<write_id("event_id", a.event_id),
              IF truthy(a.date) /\ ~DATE_PATTERN_match(a.date.s)
              THEN Error(<<"Date must be in YYYY-MM-DD format.">>)
              ELSE NoError>>))
      [] t = "create_pairing" ->
             \* lines 1031-1036
             (first_error(<<write_id("event_id", a.event_id),
              write_id("round_id", a.round_id),
              IF ~truthy(a.players)
              THEN Error(<<"At least one player is required.">>)
              ELSE NoError>>))
      [] t = "get_player_events" ->
             \* lines 399-405
             (read_id("player_id", a.player_id))
      [] t = "get_event_roster" ->
             \* lines 559-564
             (read_id("event_id", a.event_id))
      [] t = "list_event_rounds" ->
             \* lines 689-694
             (read_id("event_id", a.event_id))
      [] t = "get_round_tee_sheet" ->
             \* lines 798-810
             (first_error(<<read_id("event_id", a.event_id), read_id("round_id", a.round_id)>>))
      [] t = "get_round_tournaments" ->
             \* lines 833-845
             (first_error(<<read_id("event_id", a.event_id), read_id("round_id", a.round_id)>>))
      [] t = "get_event_courses" ->
             \* lines 914-919
             (read_id("event_id", a.event_id))
      [] t = "get_event_divisions" ->
             \* lines 932-937
             (read_id("event_id", a.event_id))
      [] OTHER -> NoError

\* the request the handler makes
tool_request(t, a) ==
    CASE t = "get_master_roster_member" ->
             \* line 387
             (ApiRequest(GET, <<"/", "master_roster_member", "/">> \o a.email.s))
      [] t = "get_tournament_results" ->
             \* lines 892-899
             (LET e == <<"/", "events", "/">> \o str(a.event_id)
                           \o <<"/", "rounds", "/">> \o str(a.round_id)
                           \o <<"/", "tournaments", "/">> \o str(a.tournament_id)
                           \o <<".">> \o a.format.s
              IN  IF a.format.s = <<"html">> THEN RawRequest(GET, e) ELSE ApiRequest(GET, e))
      [] t = "create_event" ->
             \* line 485
             (ApiRequest(POST, <<"/", "events">>))
      [] t = "update_event" ->
             \* line 527
             (ApiRequest(PUT, <<"/", "events", "/">> \o str(a.event_id)))
      [] t = "register_member_to_event" ->
             \* line 612
             (ApiRequest(POST, <<"/", "events", "/">> \o str(a.event_id) \o <<"/", "members">>))
      [] t = "create_round" ->
             \* line 726
             (ApiRequest(POST, <<"/", "events", "/">> \o str(a.event_id) \o <<"/", "rounds">>))
      [] t = "create_pairing" ->
             \* lines 1043-1045
             (ApiRequest(POST, <<"/", "events", "/">> \o str(a.event_id)
              \o <<"/", "rounds", "/">> \o str(a.round_id)
              \o <<"/", "pairing_groups">>))
      [] t = "list_events" ->
             \* line 444
             ([ApiRequest(GET, <<"/", "events", "?">>) EXCEPT
              !.params = Params(
                      \* lines 432-442: the params dict of list_events
                      (LET p0 == DictV(<<>>, <<>>)
                           p1 == IF a.season_id.t # "None"
                                 THEN dict_set(p0, "season", StrV(str(a.season_id))) ELSE p0
                           p2 == IF a.archived.t # "None"
                                 THEN dict_set(p1, "archived", StrV(lower(str_bool(a.archived)))) ELSE p1
                           p3 == IF a.page.t # "None"
                                 THEN dict_set(p2, "page", IntV(Max(1, a.page.i))) ELSE p2
                       IN  p3))])
      [] t = "list_categories" ->
             \* lines 343-344
             (ApiRequest(GET, <<"/", "categories">>))
      [] t = "list_directories" ->
             \* lines 350-351
             (ApiRequest(GET, <<"/", "directories">>))
      [] t = "list_master_roster" ->
             \* line 375
             ([ApiRequest(GET, <<"/", "master_roster", "?">>) EXCEPT
              !.params = Params(
                      \* lines 369-373: the params dict of list_master_roster
                      (LET p0 == DictV(<<>>, <<>>)
                           p1 == IF a.page.t # "None"
                                 THEN dict_set(p0, "page", IntV(Max(1, a.page.i))) ELSE p0
                           p2 == IF a.photo.t # "None"
                                 THEN dict_set(p1, "photo", StrV(lower(str_bool(a.photo)))) ELSE p1
                       IN  p2))])
      [] t = "get_player_events" ->
             \* line 407
             (ApiRequest(GET, <<"/", "players", "/">> \o str(a.player_id)))
      [] t = "get_event_roster" ->
             \* line 573
             ([ApiRequest(GET, <<"/", "events", "/">> \o str(a.event_id)
                              \o <<"/", "roster", "?">>) EXCEPT
              !.params = Params(
                      \* lines 566-570: the params dict of get_event_roster
                      (LET p0 == DictV(<<>>, <<>>)
                           p1 == IF a.page.t # "None"
                                 THEN dict_set(p0, "page", IntV(Max(1, a.page.i))) ELSE p0
                           p2 == IF a.photo.t # "None"
                                 THEN dict_set(p1, "photo", StrV(lower(str_bool(a.photo)))) ELSE p1
                       IN  p2))])
      [] t = "list_event_rounds" ->
             \* line 696
             (ApiRequest(GET, <<"/", "events", "/">> \o str(a.event_id) \o <<"/", "rounds">>))
      [] t = "get_round_tee_sheet" ->
             \* lines 816-818
             ([ApiRequest(GET, <<"/", "events", "/">> \o str(a.event_id)
                              \o <<"/", "rounds", "/">> \o str(a.round_id)
                              \o <<"/", "tee_sheet", "?">>) EXCEPT
              !.params = Params(
                      \* lines 812-814: the params dict of get_round_tee_sheet
                      (IF a.include_all_custom_fields.t # "None"
                       THEN dict_set(DictV(<<>>, <<>>), "include_all_custom_fields",
                                     StrV(lower(str_bool(a.include_all_custom_fields))))
                       ELSE DictV(<<>>, <<>>)))])
      [] t = "get_round_tournaments" ->
             \* lines 847-849
             (ApiRequest(GET, <<"/", "events", "/">> \o str(a.event_id)
              \o <<"/", "rounds", "/">> \o str(a.round_id)
              \o <<"/", "tournaments">>))
      [] t = "get_event_courses" ->
             \* line 921
             (ApiRequest(GET, <<"/", "events", "/">> \o str(a.event_id) \o <<"/", "courses">>))
      [] t = "get_event_divisions" ->
             \* line 939
             (ApiRequest(GET, <<"/", "events", "/">> \o str(a.event_id) \o <<"/", "divisions">>))
      [] OTHER -> ApiRequest(GET, <<"/", "seasons">>)

\* what the handler returns, or lets through, once the request has ended
tool_result(t, a, o) ==
    CASE t = "health_check" -> health_check_result(o)
      [] t = "list_seasons" ->
             \* lines 336-337
             (IF o.kind = "raised" THEN o ELSE Returned(_extract(o.value, "seasons")))
      [] t = "get_master_roster_member" ->
             \* lines 387-388
             (IF o.kind = "raised" THEN o ELSE Returned(_sanitize_ids(o.value)))
      [] t = "get_tournament_results" ->
             \* lines 894-900
             (IF a.format.s = <<"html">> \/ o.kind = "raised" THEN o
              ELSE Returned(_sanitize_ids(o.value)))
      [] t = "list_events" ->
             \* lines 444-445
             (IF o.kind = "raised" THEN o ELSE Returned(_extract(o.value, "events")))
      [] t = "list_categories" ->
             \* lines 343-344
             (IF o.kind = "raised" THEN o ELSE Returned(_extract(o.value, "categories")))
      [] t = "list_directories" ->
             \* lines 350-351
             (IF o.kind = "raised" THEN o ELSE Returned(_extract(o.value, "directories")))
      [] t = "list_master_roster" ->
             \* lines 375-376
             (IF o.kind = "raised" THEN o ELSE Returned(_extract(o.value, "players")))
      [] t = "get_player_events" ->
             \* lines 407-408
             (IF o.kind = "raised" THEN o ELSE Returned(_extract(o.value, "events")))
      [] t = "get_event_roster" ->
             \* lines 573-574
             (IF o.kind = "raised" THEN o ELSE Returned(_extract(o.value, "roster")))
      [] t = "list_event_rounds" ->
             \* lines 696-697
             (IF o.kind = "raised" THEN o ELSE Returned(_extract(o.value, "rounds")))
      [] t = "get_round_tee_sheet" ->
             \* lines 816-819
             (IF o.kind = "raised" THEN o ELSE Returned(_sanitize_ids(o.value)))
      [] t = "get_round_tournaments" ->
             \* lines 847-850
             (IF o.kind = "raised" THEN o ELSE Returned(_extract(o.value, "tournaments")))
      [] t = "get_event_courses" ->
             \* lines 921-922
             (IF o.kind = "raised" THEN o ELSE Returned(_extract(o.value, "courses")))
      [] t = "get_event_divisions" ->
             \* lines 939-940
             (IF o.kind = "raised" THEN o ELSE Returned(_extract(o.value, "divisions")))
      [] OTHER -> o

(***************************************************************************)
(* Arguments of the tool handlers, and the bodies the upstream answers.    *)
(***************************************************************************)
ReadIds == {StrV(<<"5">>), StrV(<<"0">>), StrV(<<"a">>)}

WriteIds == {IntV(5), IntV(0), IntV(0 - 1)}

Names == {NoneV, StrV(<<>>), StrV(<<"C", "u", "p">>)}

Dates == {NoneV, StrV(<<>>),
          StrV(<<"2", "0", "2", "5", "-", "0", "6", "-", "0", "1">>),
          StrV(<<"2", "0", "2", "5", "/", "1", "3", "/", "4", "0">>)}

Emails == {NoneV, StrV(<<>>),
           StrV(<<"n", "o", "t", "-", "a", "n", "-", "e", "m", "a", "i", "l">>),
           StrV(<<"a", "@", "b", ".", "c">>)}

Players == {ListV(<<>>), ListV(<<DictV(<<"name">>, <<StrV(<<"Woods">>)>>)>>)}

ToolArgs(t) ==
    CASE t = "get_master_roster_member" ->
             {[NoArgs EXCEPT !.email = e] : e \in Emails \ {NoneV}}
      [] t = "get_tournament_results" ->
             {[NoArgs EXCEPT !.event_id = e, !.round_id = r, !.tournament_id = n,
                             !.format = StrV(<<f>>)] :
                  e \in ReadIds, r \in ReadIds, n \in ReadIds,
                  f \in {"html", "json", "xml"}}
      [] t = "create_event" ->
             {[NoArgs EXCEPT !.name = n, !.start_date = d] :
                  n \in Names, d \in Dates}
      [] t = "update_event" ->
             {[NoArgs EXCEPT !.event_id = e, !.name = n, !.start_date = d] :
                  e \in WriteIds, n \in Names, d \in Dates}
      [] t = "register_member_to_event" ->
             {[NoArgs EXCEPT !.event_id = e, !.external_id = x, !.last_name = l,
                             !.email = m] :
                  e \in WriteIds, x \in Names \ {NoneV}, l \in Names \ {NoneV},
                  m \in Emails}
      [] t = "create_round" ->
             {[NoArgs EXCEPT !.event_id = e, !.name = n, !.date = d] :
                  e \in WriteIds, n \in Names, d \in Dates}
      [] t = "create_pairing" ->
             {[NoArgs EXCEPT !.event_id = e, !.round_id = r, !.players = p] :
                  e \in WriteIds, r \in WriteIds, p \in Players}
      [] t = "list_events" ->
             {[NoArgs EXCEPT !.season_id = s, !.archived = b, !.page = n] :
                  s \in {NoneV, IntV(1)}, b \in {NoneV, BoolV(TRUE), BoolV(FALSE)},
                  n \in {NoneV, IntV(2), IntV(0)}}
      [] t = "list_master_roster" ->
             {[NoArgs EXCEPT !.page = n, !.photo = b] :
                  n \in {NoneV, IntV(0)}, b \in {NoneV, BoolV(TRUE)}}
      [] t = "get_player_events" ->
             {[NoArgs EXCEPT !.player_id = e] : e \in ReadIds}
      [] t = "get_event_roster" ->
             {[NoArgs EXCEPT !.event_id = e, !.page = n, !.photo = b] :
                  e \in ReadIds, n \in {NoneV, IntV(2)}, b \in {NoneV, BoolV(FALSE)}}
      [] t \in {"list_event_rounds", "get_event_courses", "get_event_divisions"} ->
             {[NoArgs EXCEPT !.event_id = e] : e \in ReadIds}
      [] t = "get_round_tee_sheet" ->
             {[NoArgs EXCEPT !.event_id = e, !.round_id = r,
                             !.include_all_custom_fields = b] :
                  e \in ReadIds, r \in ReadIds, b \in {NoneV, BoolV(TRUE)}}
      [] t = "get_round_tournaments" ->
             {[NoArgs EXCEPT !.event_id = e, !.round_id = r] :
                  e \in ReadIds, r \in ReadIds}
      [] OTHER -> {NoArgs}

ToolAnswers ==
    Answers
    \cup {Response(200, NoRetryAfter, <<"{id, name}">>, TRUE,
                   DictV(<<"id", "name">>, <<IntV(7), StrV(<<"C", "u", "p">>)>>)),
          Response(200, NoRetryAfter, <<"{error, id}">>, TRUE,
                   DictV(<<"error", "id">>, <<StrV(<<"x">>), IntV(7)>>)),
          Response(200, NoRetryAfter, <<"[{id}]">>, TRUE,
                   ListV(<<DictV(<<"id">>, <<IntV(7)>>)>>))}

(***************************************************************************)
(* A tool handler as a state machine around the executor.                  *)
(***************************************************************************)
\* the handler is called: it validates, and either returns an error map or
\* calls make_api_request / make_raw_request
tool_call(t, a) ==
    /\ pc = "idle"
    /\ tool' = t
    /\ args' = a
    /\ IF tool_validate(t, a).some
       THEN /\ tool_outcome' = Returned(ErrorMap(tool_validate(t, a).v))
            /\ pc' = "tool_done"
            /\ UNCHANGED callVars
       ELSE /\ UNCHANGED tool_outcome
            /\ IF tool_request(t, a).raw
               THEN make_raw_request_enter(tool_request(t, a).method,
                                           tool_request(t, a).endpoint, NoHeaders)
               ELSE make_api_request_enter(tool_request(t, a).method,
                                           tool_request(t, a).endpoint, NoHeaders)
    /\ kwargs_params' = IF tool_validate(t, a).some THEN kwargs_params
                        ELSE tool_request(t, a).params
    /\ UNCHANGED <<key, extracted, client>>
    /\ UNCHANGED sanVars
    /\ UNCHANGED serverVars

\* the request has ended: the handler returns, or the exception leaves it
tool_return ==
    /\ pc \in {"done", "raw_done"}
    /\ tool # ""
    /\ tool_outcome' = tool_result(tool, args, outcome)
    /\ pc' = "tool_done"
    /\ UNCHANGED <<key, extracted, tool, args, client>>
    /\ UNCHANGED callVars
    /\ UNCHANGED sanVars
    /\ UNCHANGED serverVars
    /\ UNCHANGED kwargs_params

NextTool ==
    \/ \E t \in Tools : \E a \in ToolArgs(t) : tool_call(t, a)
    \/ make_api_request_send
    \/ \E a \in ToolAnswers : make_api_request_receive(a)
    \/ retry_wait
    \/ \E a \in ToolAnswers : make_raw_request_receive(a)
    \/ tool_return

SpecTool == Init /\ [][NextTool]_vars

(***************************************************************************)
(* The shared client: _get_client called by the executor and by others,    *)
(* while holders of the client close it or empty the slot.                 *)
(***************************************************************************)
\* a stand-alone call of _get_client()
_get_client_call ==
    /\ pc = "idle"
    /\ _client' = _get_client(_client, clients_created)
    /\ clients_created' = IF _client' = _client THEN clients_created
                          ELSE clients_created + 1
    /\ client' = _client'.id
    /\ UNCHANGED <<pc, method, endpoint, kwargs_headers, attempt_number, requests,
                   received, slept, outcome>>
    /\ UNCHANGED <<key, extracted, tool, args, tool_outcome>>
    /\ UNCHANGED sanVars
    /\ UNCHANGED serverVars
    /\ UNCHANGED kwargs_params

\* a holder of the client closes it: _client.is_closed becomes true
external_close ==
    /\ _client.exists
    /\ ~_client.is_closed
    /\ clients_created < MaxClients
    /\ _client' = [_client EXCEPT !.is_closed = TRUE]
    /\ UNCHANGED <<pc, method, endpoint, kwargs_headers, attempt_number, requests,
                   received, slept, outcome, clients_created>>
    /\ UNCHANGED sanVars
    /\ UNCHANGED serverVars
    /\ UNCHANGED kwargs_params
    /\ UNCHANGED toolVars

\* the slot is emptied from outside: main._client = None
external_reset ==
    /\ _client.exists
    /\ clients_created < MaxClients
    /\ _client' = NoClient
    /\ UNCHANGED <<pc, method, endpoint, kwargs_headers, attempt_number, requests,
                   received, slept, outcome, clients_created>>
    /\ UNCHANGED sanVars
    /\ UNCHANGED serverVars
    /\ UNCHANGED kwargs_params
    /\ UNCHANGED toolVars

\* the call has ended and its locals are gone; the client stays
call_ended ==
    /\ pc = "done"
    /\ pc' = "idle"
    /\ method' = <<>>
    /\ endpoint' = <<>>
    /\ kwargs_headers' = NoHeaders
    /\ attempt_number' = 0
    /\ requests' = <<>>
    /\ received' = <<>>
    /\ slept' = <<>>
    /\ outcome' = Pending
    /\ UNCHANGED <<_client, clients_created>>
    /\ UNCHANGED sanVars
    /\ UNCHANGED serverVars
    /\ UNCHANGED kwargs_params
    /\ UNCHANGED toolVars

ClientAnswers ==
    {Response(200, NoRetryAfter, <<"[]">>, TRUE, ListV(<<>>)),
     Response(429, NoRetryAfter, <<>>, FALSE, NoneV),
     TransportException("ConnectError", <<"failed">>)}

NextClient ==
    \/ _get_client_call
    \/ external_close
    \/ external_reset
    \/ \E m \in {GET, POST} : make_api_request_call(m, <<"/", "e">>, NoHeaders)
    \/ make_api_request_send
    \/ \E a \in ClientAnswers : make_api_request_receive(a)
    \/ retry_wait
    \/ call_ended

SpecClient == Init /\ [][NextClient]_vars

(***************************************************************************)
(* The process: the module is imported (its decorators register the tool   *)
(* handlers), main checks the credential, and the protocol server serves   *)
(* calls of the registered tools.                                          *)
(***************************************************************************)
InitServer ==
    /\ pc = "idle"
    /\ method = <<>>
    /\ endpoint = <<>>
    /\ kwargs_headers = NoHeaders
    /\ attempt_number = 0
    /\ requests = <<>>
    /\ received = <<>>
    /\ slept = <<>>
    /\ outcome = Pending
    /\ _client = NoClient
    /\ clients_created = 0
    /\ data = NoneV
    /\ once = NoneV
    /\ twice = NoneV
    /\ key = ""
    /\ extracted = NoneV
    /\ tool = ""
    /\ args = NoArgs
    /\ tool_outcome = Pending
    /\ client = 0
    /\ kwargs_params = NoParams
    /\ tasks = [t \in Tasks |-> NoTask]
    /\ process = "importing"
    /\ registered = <<>>
    /\ exit_code = NoneInt
    /\ stdout = <<>>
    /\ GOLF_GENIUS_API_KEY \in {NoneV, StrV(<<>>), StrV(API_KEY)}

\* the module body reaches the next @mcp.tool() decorator
mcp_tool ==
    /\ process = "importing"
    /\ Len(registered) < Len(DECORATED)
    /\ registered' = Append(registered, DECORATED[Len(registered) + 1])
    /\ UNCHANGED <<tasks, process, exit_code, stdout, GOLF_GENIUS_API_KEY>>
    /\ UNCHANGED execVars
    /\ UNCHANGED sanVars
    /\ UNCHANGED toolVars
    /\ UNCHANGED kwargs_params

\* the module body has been executed to its end
module_loaded ==
    /\ process = "importing"
    /\ Len(registered) = Len(DECORATED)
    /\ process' = "imported"
    /\ UNCHANGED <<tasks, registered, exit_code, stdout, GOLF_GENIUS_API_KEY>>
    /\ UNCHANGED execVars
    /\ UNCHANGED sanVars
    /\ UNCHANGED toolVars
    /\ UNCHANGED kwargs_params

\* lines 1120-1129: main()
main ==
    /\ process = "imported"
    /\ IF ~truthy(GOLF_GENIUS_API_KEY)
       THEN /\ stdout' = stdout
                  \o <<"Error: GOLF_GENIUS_API_KEY environment variable is not set.",
                       "Please set your Golf Genius API key and try again.">>
            /\ exit_code' = SomeInt(1)
            /\ process' = "exited"
       ELSE /\ process' = "running"
            /\ UNCHANGED <<stdout, exit_code>>
    /\ UNCHANGED <<tasks, registered, GOLF_GENIUS_API_KEY>>
    /\ UNCHANGED execVars
    /\ UNCHANGED sanVars
    /\ UNCHANGED toolVars
    /\ UNCHANGED kwargs_params

\* mcp.run(): the server dispatches a call of a registered tool
call_tool(t, a) ==
    /\ process = "running"
    /\ \E i \in 1..Len(registered) : registered[i] = t
    /\ tool_call(t, a)

\* the result has gone back to the caller; the handler's locals are gone
tool_ended ==
    /\ process = "running"
    /\ pc = "tool_done"
    /\ pc' = "idle"
    /\ method' = <<>>
    /\ endpoint' = <<>>
    /\ kwargs_headers' = NoHeaders
    /\ attempt_number' = 0
    /\ requests' = <<>>
    /\ received' = <<>>
    /\ slept' = <<>>
    /\ outcome' = Pending
    /\ tool' = ""
    /\ args' = NoArgs
    /\ tool_outcome' = Pending
    /\ kwargs_params' = NoParams
    /\ UNCHANGED <<_client, clients_created, key, extracted, client>>
    /\ UNCHANGED sanVars
    /\ UNCHANGED serverVars

NextServer ==
    \/ mcp_tool
    \/ module_loaded
    \/ main
    \/ \E t \in Tools \cup {DECORATED[i] : i \in 1..Len(DECORATED)} :
           \E a \in ToolArgs(t) : call_tool(t, a)
    \/ make_api_request_send
    \/ \E a \in ClientAnswers : make_api_request_receive(a)
    \/ retry_wait
    \/ \E a \in ClientAnswers : make_raw_request_receive(a)
    \/ tool_return
    \/ tool_ended

SpecServer == InitServer /\ [][NextServer]_vars

(***************************************************************************)
(* Two tasks of the event loop that call make_api_request while no client  *)
(* exists.  A task runs until it awaits: _get_client is a plain function,  *)
(* so lines 193-204 up to the await of client.request are one step.        *)
(***************************************************************************)
TaskEndpoint == <<"/", "seasons">>

InitTasks ==
    /\ pc = "idle"
    /\ method = <<>>
    /\ endpoint = <<>>
    /\ kwargs_headers = NoHeaders
    /\ attempt_number = 0
    /\ requests = <<>>
    /\ received = <<>>
    /\ slept = <<>>
    /\ outcome = Pending
    /\ _client = NoClient
    /\ clients_created = 0
    /\ data = NoneV
    /\ once = NoneV
    /\ twice = NoneV
    /\ key = ""
    /\ extracted = NoneV
    /\ tool = ""
    /\ args = NoArgs
    /\ tool_outcome = Pending
    /\ client = 0
    /\ kwargs_params = NoParams
    /\ ServerLoaded

taskFrame ==
    <<pc, method, endpoint, kwargs_headers, attempt_number, received, slept,
      outcome, data, once, twice, key, extracted, tool, args, tool_outcome,
      client, kwargs_params, process, registered, exit_code, stdout,
      GOLF_GENIUS_API_KEY>>

\* the task calls make_api_request("GET", "/seasons")
task_call(t) ==
    /\ tasks[t].pc = "ready"
    /\ tasks' = [tasks EXCEPT ![t].pc = "attempt", ![t].attempt_number = 1]
    /\ UNCHANGED <<requests, _client, clients_created>>
    /\ UNCHANGED taskFrame

\* lines 193-204: the task gets the client, issues the request and suspends
task_send(t) ==
    /\ tasks[t].pc = "attempt"
    /\ _client' = _get_client(_client, clients_created)
    /\ clients_created' = IF _client' = _client THEN clients_created
                          ELSE clients_created + 1
    /\ requests' = Append(requests,
                          [method |-> GET,
                           url |-> _build_url(GET, TaskEndpoint),
                           headers |-> request_headers(GET, NoHeaders),
                           params |-> NoParams,
                           client |-> _client'.id])
    /\ tasks' = [tasks EXCEPT ![t].pc = "awaiting", ![t].client = _client'.id]
    /\ UNCHANGED taskFrame

\* the answer arrives: the attempt ends, tenacity retries or lets it through
task_receive(t, a) ==
    /\ tasks[t].pc = "awaiting"
    /\ IF retry_condition(attempt(TaskEndpoint, a))
          /\ ~stop_condition(tasks[t].attempt_number)
       THEN tasks' = [tasks EXCEPT ![t].pc = "backoff"]
       ELSE tasks' = [tasks EXCEPT ![t].pc = "done",
                                   ![t].kind = attempt(TaskEndpoint, a).kind]
    /\ UNCHANGED <<requests, _client, clients_created>>
    /\ UNCHANGED taskFrame

\* tenacity sleeps in the task, then starts its next attempt
task_wait(t) ==
    /\ tasks[t].pc = "backoff"
    /\ tasks' = [tasks EXCEPT ![t].pc = "attempt",
                              ![t].attempt_number = tasks[t].attempt_number + 1]
    /\ UNCHANGED <<requests, _client, clients_created>>
    /\ UNCHANGED taskFrame

NextTasks ==
    \/ \E t \in Tasks : task_call(t)
    \/ \E t \in Tasks : task_send(t)
    \/ \E t \in Tasks : \E a \in ClientAnswers : task_receive(t, a)
    \/ \E t \in Tasks : task_wait(t)

\* the event loop runs every task that is ready to run
SpecTasks == InitTasks /\ [][NextTasks]_vars /\ WF_vars(NextTasks)

(***************************************************************************)
(* Properties of the request executor.                                     *)
(***************************************************************************)
GetSpellings == {<<"G", "E", "T">>, <<"g", "e", "t">>}

\* s is e without its leading slashes
StrippedOf(e, s) ==
    \E k \in 0..Len(e) :
        /\ \A i \in 1..k : e[i] = "/"
        /\ k < Len(e) => e[k + 1] # "/"
        /\ s = SubSeq(e, k + 1, Len(e))

\* the segments of a path, split at "/"
RECURSIVE Segments(_)
Segments(p) ==
    IF \A i \in 1..Len(p) : p[i] # "/" THEN <<p>>
    ELSE LET k == CHOOSE i \in 1..Len(p) :
                      p[i] = "/" /\ \A j \in 1..(i - 1) : p[j] # "/"
         IN  <<SubSeq(p, 1, k - 1)>> \o Segments(SubSeq(p, k + 1, Len(p)))

CredentialSegments(p) ==
    Cardinality({i \in 1..Len(Segments(p)) : Segments(p)[i] = API_KEY})

\* the part of a URL after the API prefix
PathOf(u) == SubSeq(u, Len(BASE_URL) + 1, Len(u))

LastReceived == received[Len(received)]

Is429(a) == a.kind = "response" /\ a.status_code = 429

\* C1: every request of a GET call goes to base + "/" + credential + "/" +
\* endpoint without its leading slashes, so the credential is the first path
\* segment after the API prefix; every request of a non-GET call goes to
\* base + "/" + endpoint without its leading slashes, and the path holds no
\* credential segment that the endpoint did not hold itself.
C1_BuildUrl ==
    \A i \in 1..Len(requests) :
        \E s \in Endpoints :
            /\ StrippedOf(endpoint, s)
            /\ IF method \in GetSpellings
               THEN /\ requests[i].url
                          = BASE_URL \o <<"/">> \o API_KEY \o <<"/">> \o s
                    /\ Segments(PathOf(requests[i].url))[2] = API_KEY
               ELSE /\ requests[i].url = BASE_URL \o <<"/">> \o s
                    /\ CredentialSegments(PathOf(requests[i].url))
                          = CredentialSegments(s)

C1_Witness ==
    /\ method = GET
    /\ endpoint = <<"/", "/">>
    /\ Len(requests) = 1
    /\ requests[1].url
          = <<"https:", "/", "/", "www.golfgenius.com", "/", "api_v2", "/", "K", "/">>

\* C2: every request of a non-GET call, on every attempt, carries
\* Authorization = "Bearer " + credential and Content-Type = application/json,
\* whatever the caller passed under these two keys, and keeps every other
\* header of the caller.
C2_WriteHeaders ==
    \A i \in 1..Len(requests) :
        method \notin GetSpellings =>
            /\ requests[i].headers.some
            /\ HasKey(requests[i].headers.v, "Authorization")
            /\ Get(requests[i].headers.v, "Authorization")
                  = StrV(<<"Bearer ">> \o API_KEY)
            /\ HasKey(requests[i].headers.v, "Content-Type")
            /\ Get(requests[i].headers.v, "Content-Type")
                  = StrV(<<"application/json">>)
            /\ \A j \in 1..Len(kwargs_headers.v.keys) :
                   kwargs_headers.v.keys[j] \notin {"Authorization", "Content-Type"}
                   => /\ HasKey(requests[i].headers.v, kwargs_headers.v.keys[j])
                      /\ Get(requests[i].headers.v, kwargs_headers.v.keys[j])
                            = kwargs_headers.v.items[j]

C2_Witness ==
    /\ method = <<"P", "O", "S", "T">>
    /\ kwargs_headers.some
    /\ HasKey(kwargs_headers.v, "Authorization")
    /\ HasKey(kwargs_headers.v, "X-Trace")
    /\ Len(requests) = 3
    /\ Get(requests[3].headers.v, "Authorization") = StrV(<<"Bearer ", "K">>)
    /\ Get(requests[3].headers.v, "X-Trace") = StrV(<<"t">>)

\* C3: a call that the upstream answered with status 429 on every attempt
\* ends after exactly 3 requests by raising RateLimitError.
C3_RateLimitExhaustion ==
    (pc = "done" /\ \A i \in 1..Len(received) : Is429(received[i]))
    => /\ Len(requests) = 3
       /\ outcome.kind = "raised"
       /\ outcome.exc.type = "RateLimitError"

\* the number of leading answers with status 429
Leading429 ==
    Cardinality({i \in 1..Len(received) : \A j \in 1..i : Is429(received[j])})

\* C4: a finished call issued min(3, leading 429 answers + 1) requests, and
\* its outcome is the one of its last attempt; no answer but a 429 is
\* followed by another request.
C4_RetryOnlyOnRateLimit ==
    pc = "done"
    => /\ Len(requests) = Min(3, Leading429 + 1)
       /\ outcome = attempt(endpoint, LastReceived)

\* C5: an attempt answered with status 429 ends by raising RateLimitError,
\* whatever the Retry-After header holds (absent, an integer text, any other
\* text), and a header that is present is carried as the retry-after hint.
C5_RateLimitRaised ==
    (pc = "done" /\ Is429(LastReceived))
    => /\ outcome.kind = "raised"
       /\ outcome.exc.type = "RateLimitError"
       /\ LastReceived.retry_after.some => outcome.exc.retry_after.some

\* C6: a 404 answer ends the call at once (no further request; one request
\* in all when it answers the first) with NotFoundError, status code 404,
\* whose message names the requested endpoint.
C6_NotFound ==
    \A i \in 1..Len(received) :
        (received[i].kind = "response" /\ received[i].status_code = 404)
        => /\ i = Len(received)
           /\ Len(requests) = i
           /\ pc = "done"
           /\ outcome.kind = "raised"
           /\ outcome.exc.type = "NotFoundError"
           /\ outcome.exc.status_code = 404
           /\ Len(outcome.exc.message) >= Len(endpoint)
           /\ SubSeq(outcome.exc.message, 1, Len(endpoint)) = endpoint

C6_Witness ==
    /\ pc = "done"
    /\ endpoint = <<"/", "e">>
    /\ Len(requests) = 1
    /\ Len(received) = 1
    /\ received[1].status_code = 404
    /\ outcome.exc.message = <<"/", "e", " not found.">>

\* C7: a 401 or 403 answer ends the call at once (no further request; one
\* request in all when it answers the first) with AuthenticationError raised
\* to the caller, not returned as an error map.
C7_Authentication ==
    \A i \in 1..Len(received) :
        (received[i].kind = "response" /\ received[i].status_code \in {401, 403})
        => /\ i = Len(received)
           /\ Len(requests) = i
           /\ pc = "done"
           /\ outcome.kind = "raised"
           /\ outcome.exc.type = "AuthenticationError"

C7_Witness ==
    /\ pc = "done"
    /\ Len(requests) = 1
    /\ Len(received) = 1
    /\ received[1].status_code = 403
    /\ outcome.kind = "raised"
    /\ outcome.exc.type = "AuthenticationError"

\* the decimal text of the error statuses the upstream answers with
StatusText(sc) ==
    CASE sc = 301 -> <<"3", "0", "1">>
      [] sc = 400 -> <<"4", "0", "0">>
      [] sc = 500 -> <<"5", "0", "0">>
      [] OTHER -> <<"?">>

\* C8: an answer whose status is outside 2xx and is not 429, 401, 403 or 404
\* ends the call with nothing raised and the map
\* {"error": "API Error <status>: <body text>"} returned.
C8_GenericHttpError ==
    \A i \in 1..Len(received) :
        (/\ received[i].kind = "response"
         /\ ~(200 <= received[i].status_code /\ received[i].status_code <= 299)
         /\ received[i].status_code \notin {429, 401, 403, 404})
        => /\ i = Len(received)
           /\ pc = "done"
           /\ outcome.kind = "returned"
           /\ outcome.value
                 = DictV(<<"error">>,
                         <<StrV(<<"API Error ">> \o StatusText(received[i].status_code)
                                \o <<":", " ">> \o received[i].text)>>)

C8_Witness ==
    /\ pc = "done"
    /\ Len(received) = 2
    /\ Is429(received[1])
    /\ received[2].status_code = 301
    /\ outcome.value
          = DictV(<<"error">>, <<StrV(<<"API Error ", "3", "0", "1", ":", " ", "oops">>)>>)

\* C9: a transport failure ends the call with an error map returned: the
\* timeout text for a timeout, the unable-to-connect text for a connection
\* failure, "Request failed: <message>" for any other exception; and nothing
\* but RateLimitError, AuthenticationError and NotFoundError is ever raised
\* out of make_api_request.
C9_TransportFailures ==
    /\ outcome.kind = "raised"
       => outcome.exc.type \in {"RateLimitError", "AuthenticationError",
                                "NotFoundError"}
    /\ \A i \in 1..Len(received) :
           received[i].kind = "exception"
           => /\ i = Len(received)
              /\ pc = "done"
              /\ outcome.kind = "returned"
              /\ outcome.value.keys = <<"error">>
              /\ outcome.value.items[1].s
                    = (IF received[i].exc_type \in {"ReadTimeout", "ConnectTimeout"}
                       THEN <<"Request timed out. Please try again.">>
                       ELSE IF received[i].exc_type = "ConnectError"
                       THEN <<"Unable to connect to Golf Genius API. Check your network connection.">>
                       ELSE <<"Request failed: ">> \o received[i].exc_message)

C9_Witness ==
    /\ pc = "done"
    /\ Len(received) = 1
    /\ received[1].exc_type = "ReadError"
    /\ outcome.kind = "returned"
    /\ outcome.value = DictV(<<"error">>, <<StrV(<<"Request failed: ", "failed">>)>>)

(***************************************************************************)
(* Properties of the response normalizer.                                  *)
(***************************************************************************)
\* every "id_str" that _sanitize_ids would copy into an "id" of x is a value
\* that _sanitize_ids leaves as it is
RECURSIVE IdStrStable(_)
IdStrStable(x) ==
    IF x.t = "dict"
    THEN /\ (HasKey(x, "id") /\ HasKey(x, "id_str"))
            => _sanitize_ids(Get(x, "id_str")) = Get(x, "id_str")
         /\ \A j \in 1..Len(x.keys) :
                \/ x.keys[j] = "id" /\ HasKey(x, "id_str")
                \/ IdStrStable(x.items[j])
    ELSE IF x.t = "list"
    THEN \A j \in 1..Len(x.items) : IdStrStable(x.items[j])
    ELSE TRUE

\* C10 as stated: _sanitize_ids(_sanitize_ids(x)) = _sanitize_ids(x) for
\* every input, "id_str" values that are maps or lists included.
C10_Idempotent == pc = "twice" => twice = once

\* C10, amended: _sanitize_ids(_sanitize_ids(x)) = _sanitize_ids(x) for every
\* input in which each "id_str" that is copied into an "id" is itself left
\* unchanged by _sanitize_ids (every string and integer "id_str" is).
C10_IdempotentStableIdStr == (pc = "twice" /\ IdStrStable(data)) => twice = once

C10_Witness ==
    /\ pc = "twice"
    /\ data = DictV(<<"id", "id_str", "name">>,
                    <<IntV(0 - 12), IntV(7), DictV(<<"id">>, <<IntV(0 - 12)>>)>>)
    /\ once = DictV(<<"id", "id_str", "name">>,
                    <<StrV(<<"7">>), IntV(7),
                      DictV(<<"id">>, <<StrV(<<"-", "1", "2">>)>>)>>)
    /\ twice = once

(***************************************************************************)
(* Properties of the response normalizer.                                  *)
(***************************************************************************)
\* some dict inside x, at any depth, has an int under the key "id"
RECURSIVE HasIntegerId(_)
HasIntegerId(x) ==
    IF x.t = "dict"
    THEN \E j \in 1..Len(x.keys) :
             \/ x.keys[j] = "id" /\ x.items[j].t = "int"
             \/ HasIntegerId(x.items[j])
    ELSE IF x.t = "list"
    THEN \E j \in 1..Len(x.items) : HasIntegerId(x.items[j])
    ELSE FALSE

\* C11: for every input, no dict at any nesting depth of the output of
\* _sanitize_ids has an int under the key "id".
C11_NoIntegerId == pc \in {"once", "twice"} => ~HasIntegerId(once)

C11_Witness ==
    /\ pc = "once"
    /\ data = ListV(<<DictV(<<"id">>, <<IntV(7)>>)>>)
    /\ once = ListV(<<DictV(<<"id">>, <<StrV(<<"7">>)>>)>>)

\* x has nothing for _sanitize_ids to rewrite: no dict in it has an int
\* under "id" or an "id" next to an "id_str"
RECURSIVE NothingToRewrite(_)
NothingToRewrite(x) ==
    IF x.t = "dict"
    THEN /\ ~(HasKey(x, "id") /\ HasKey(x, "id_str"))
         /\ \A j \in 1..Len(x.keys) :
                /\ ~(x.keys[j] = "id" /\ x.items[j].t = "int")
                /\ NothingToRewrite(x.items[j])
    ELSE IF x.t = "list"
    THEN \A j \in 1..Len(x.items) : NothingToRewrite(x.items[j])
    ELSE TRUE

C15_RawAlwaysString ==
    pc = "raw_done" =>
        /\ outcome.kind = "returned"
        /\ outcome.value.t = "str"
        /\ IF LastReceived.kind = "response"
              /\ 200 <= LastReceived.status_code /\ LastReceived.status_code <= 299
           THEN outcome.value.s = LastReceived.text
           ELSE /\ outcome.value.s # <<>>
                /\ Head(outcome.value.s) = "Error fetching response: "
                /\ Tail(outcome.value.s) # <<>>
                /\ LastReceived.kind = "exception" =>
                       Tail(outcome.value.s) = LastReceived.exc_message

C15_Witness ==
    /\ pc = "raw_done"
    /\ Is429(LastReceived)
    /\ outcome.kind = "returned"
    /\ outcome.value.t = "str"
    /\ Head(outcome.value.s) = "Error fetching response: "

\* C16: every request of make_raw_request goes to the URL make_api_request
\* uses for the same method and endpoint, and for every non-GET method it
\* carries Authorization = "Bearer " + credential and the JSON content type.
C16_RawSameTargetAndAuth ==
    pc \in {"raw_awaiting", "raw_done"} =>
        \A i \in 1..Len(requests) :
            /\ requests[i].url = _build_url(method, endpoint)
            /\ upper(method) # GET =>
                   /\ requests[i].headers.some
                   /\ HasKey(requests[i].headers.v, "Authorization")
                   /\ Get(requests[i].headers.v, "Authorization")
                          = StrV(<<"Bearer ">> \o API_KEY)
                   /\ HasKey(requests[i].headers.v, "Content-Type")
                   /\ Get(requests[i].headers.v, "Content-Type")
                          = StrV(<<"application/json">>)

(***************************************************************************)
(* Properties of the tool handlers.                                        *)
(***************************************************************************)
\* C12: whatever a tool handler returns to its caller, for every upstream
\* body, holds no numeric identifier: every "id" at any depth is a str, also
\* when the body comes back through the error branch of _extract or straight
\* from make_api_request.
C12_NoNumericIdReturned ==
    (pc = "tool_done" /\ tool_outcome.kind = "returned") =>
        ~HasIntegerId(tool_outcome.value)

\* the body is one of the shapes of a decoded response: a dict without
\* "error", or a list of dicts
BodyWithoutError(x) ==
    \/ x.t = "dict" /\ ~HasKey(x, "error")
    \/ x.t = "list" /\ \A j \in 1..Len(x.items) : x.items[j].t = "dict"

\* C17: health_check returns status "ok" when the seasons request returned a
\* decoded body without an "error" key, and status "auth_error" when the
\* upstream answered 401 or 403; both results carry the server version.
C17_HealthCheck ==
    (pc = "tool_done" /\ tool = "health_check") =>
        /\ tool_outcome.kind = "returned"
        /\ tool_outcome.value.t = "dict"
        /\ (/\ LastReceived.kind = "response"
            /\ 200 <= LastReceived.status_code /\ LastReceived.status_code <= 299
            /\ LastReceived.json_ok
            /\ BodyWithoutError(LastReceived.json)) =>
               /\ Get(tool_outcome.value, "status") = StrV(<<"ok">>)
               /\ Get(tool_outcome.value, "version") = StrV(VERSION)
        /\ (LastReceived.kind = "response" /\ LastReceived.status_code \in {401, 403}) =>
               /\ Get(tool_outcome.value, "status") = StrV(<<"auth_error">>)
               /\ Get(tool_outcome.value, "version") = StrV(VERSION)

C17_Witness ==
    /\ pc = "tool_done"
    /\ tool = "health_check"
    /\ LastReceived.json = DictV(<<"seasons">>, <<ListV(<<>>)>>)
    /\ tool_outcome.kind = "returned"
    /\ Get(tool_outcome.value, "status") = StrV(<<"ok">>)
    /\ Get(tool_outcome.value, "version") = StrV(<<"0.2.4">>)

\* v is given as an ID and is not a positive integer
NotPositiveInteger(v) ==
    \/ v.t = "int" /\ v.i <= 0
    \/ v.t = "str" /\ ~(/\ v.s # <<>>
                        /\ \A i \in 1..Len(v.s) : IsDigit(v.s[i])
                        /\ \E i \in 1..Len(v.s) : v.s[i] # "0")

\* v is a date that was given and is not of the form YYYY-MM-DD
NotIsoDate(v) ==
    /\ v.t = "str"
    /\ v.s # <<>>
    /\ ~(/\ Len(v.s) = 10
         /\ v.s[5] = "-"
         /\ v.s[8] = "-"
         /\ \A i \in {1, 2, 3, 4, 6, 7, 9, 10} : IsDigit(v.s[i]))

\* v is an e-mail address that was given and does not match the pattern
NotEmail(v) == v.t = "str" /\ v.s # <<>> /\ ~email_match(v.s)

\* a required field of the handler is empty
EmptyRequired(t, a) ==
    \/ t = "create_event" /\ a.name = StrV(<<>>)
    \/ t = "register_member_to_event"
           /\ (a.external_id = StrV(<<>>) \/ a.last_name = StrV(<<>>))
    \/ t = "create_pairing" /\ a.players = ListV(<<>>)
    \/ t = "get_master_roster_member" /\ a.email = StrV(<<>>)

FailsValidation(t, a) ==
    \/ NotPositiveInteger(a.event_id)
    \/ NotPositiveInteger(a.round_id)
    \/ NotPositiveInteger(a.tournament_id)
    \/ NotIsoDate(a.start_date)
    \/ NotIsoDate(a.date)
    \/ NotEmail(a.email)
    \/ EmptyRequired(t, a)
    \/ t = "update_event" /\ a.name = NoneV /\ a.start_date = NoneV

C19_NoExceptionCrossesBoundary == pc = "tool_done" => tool_outcome.kind = "returned"

(***************************************************************************)
(* Properties of the shared client.                                        *)
(***************************************************************************)
IsOpen(c) == c.exists /\ ~c.is_closed

\* C20: in every step, _get_client (called alone or by the executor) returns
\* the instance in the slot when that instance is open, and creates a new one
\* only when the slot is empty or its instance is closed; an open instance
\* in the slot changes only from outside the core; every new request is
\* issued on the open instance that is in the slot.
C20_SharedClient ==
    [][/\ (_get_client_call /\ IsOpen(_client)) =>
              (client' = _client.id /\ _client' = _client)
       /\ (make_api_request_send /\ IsOpen(_client)) => _client' = _client
       /\ (clients_created' # clients_created) =>
              /\ ~IsOpen(_client)
              /\ clients_created' = clients_created + 1
              /\ _client'.id = clients_created'
              /\ IsOpen(_client')
       /\ (IsOpen(_client) /\ _client' # _client) =>
              (external_close \/ external_reset)
       /\ (Len(requests') > Len(requests)) =>
              /\ IsOpen(_client')
              /\ requests'[Len(requests')].client = _client'.id
              /\ \A i \in 1..Len(requests) : requests'[i] = requests[i]
      ]_vars

C20_Witness ==
    /\ pc = "awaiting"
    /\ client = 1
    /\ clients_created = 2
    /\ _client = [exists |-> TRUE, id |-> 2, is_closed |-> FALSE]
    /\ Len(requests) = 2
    /\ requests[1].client = 1
    /\ requests[2].client = 2

(***************************************************************************)
(* Properties of list_events.                                              *)
(***************************************************************************)
\* the query of a URL: what follows its first "?"
RECURSIVE QueryOf(_)
QueryOf(u) ==
    IF u = <<>> THEN <<>> ELSE IF Head(u) = "?" THEN Tail(u) ELSE QueryOf(Tail(u))

\* the query q has an entry k=v
HasPair(q, k, v) ==
    \E i \in 1..Len(q) :
        /\ i = 1 \/ q[i - 1] = "&"
        /\ i + 1 + Len(v) <= Len(q)
        /\ SubSeq(q, i, i + 1 + Len(v)) = <<k, "=">> \o v
        /\ i + 1 + Len(v) = Len(q) \/ q[i + 2 + Len(v)] = "&"

\* the query q has an entry named k
HasName(q, k) ==
    \E i \in 1..Len(q) : (i = 1 \/ q[i - 1] = "&") /\ q[i] = k

\* C22: every request of list_events is a GET whose query string holds
\* season_id=<season_id>, page=<page> and archived=true or archived=false
\* for the filters that were given, and no entry for a filter that is None.
C22_ListEventsQuery ==
    tool = "list_events" =>
        \A i \in 1..Len(requests) :
            LET q == QueryOf(sent_url(requests[i]))
            IN  /\ upper(requests[i].method) = GET
                /\ IF args.season_id = NoneV THEN ~HasName(q, "season_id")
                   ELSE HasPair(q, "season_id", str(args.season_id))
                /\ IF args.page = NoneV THEN ~HasName(q, "page")
                   ELSE HasPair(q, "page", str_int(args.page.i))
                /\ IF args.archived = NoneV THEN ~HasName(q, "archived")
                   ELSE HasPair(q, "archived",
                                IF args.archived = BoolV(TRUE)
                                THEN <<"t", "r", "u", "e">>
                                ELSE <<"f", "a", "l", "s", "e">>)

(***************************************************************************)
(* Further properties of the normalizer, the executor, health_check and    *)
(* the raw passthrough.                                                    *)
(***************************************************************************)
\* y is x with the ids rewritten: same keys, lengths and order; an "id"
\* beside an "id_str" is str(id_str); an int "id" without one is its decimal
\* text; every other entry and element is rewritten in the same way
RECURSIVE Rewritten(_, _)
Rewritten(x, y) ==
    IF x.t = "dict"
    THEN /\ y.t = "dict"
         /\ y.keys = x.keys
         /\ Len(y.items) = Len(x.items)
         /\ \A j \in 1..Len(x.keys) :
                IF x.keys[j] = "id" /\ HasKey(x, "id_str")
                THEN y.items[j] = StrV(str(Get(x, "id_str")))
                ELSE IF x.keys[j] = "id" /\ x.items[j].t = "int"
                THEN y.items[j] = StrV(IF x.items[j].i < 0
                                       THEN <<"-">> \o DecNat(0 - x.items[j].i)
                                       ELSE DecNat(x.items[j].i))
                ELSE Rewritten(x.items[j], y.items[j])
    ELSE IF x.t = "list"
    THEN /\ y.t = "list"
         /\ Len(y.items) = Len(x.items)
         /\ \A j \in 1..Len(x.items) : Rewritten(x.items[j], y.items[j])
    ELSE y = x

\* C23: in the output of _sanitize_ids every map of the input, at any depth,
\* has its "id" replaced by the string form of its "id_str" when it has both,
\* by the decimal string of an integer "id" when it has no "id_str"; every
\* other key keeps its recursively sanitized value; keys, list lengths and
\* element order are those of the input.
C23_SanitizeStructure == pc \in {"once", "twice"} => Rewritten(data, once)

C23_Witness ==
    /\ pc = "once"
    /\ data = DictV(<<"id", "id_str", "name">>,
                    <<IntV(0 - 12), StrV(<<"7">>), DictV(<<"id">>, <<IntV(7)>>)>>)
    /\ once = DictV(<<"id", "id_str", "name">>,
                    <<StrV(<<"7">>), StrV(<<"7">>),
                      DictV(<<"id">>, <<StrV(<<"7">>)>>)>>)

\* C25: the attempts of one call are strictly sequential (a request is
\* issued only when every earlier one has been answered and the backoff
\* after it has been slept), and the backoff before attempt n+1 is
\* exponential in n, is 2 seconds before the first retry, never decreases and
\* stays within 2 and 30 seconds.
C25_SequentialBackoff ==
    /\ pc = "attempt" =>
           /\ Len(requests) = attempt_number - 1
           /\ Len(received) = attempt_number - 1
           /\ Len(slept) = attempt_number - 1
    /\ pc = "awaiting" =>
           /\ Len(requests) = attempt_number
           /\ Len(received) = attempt_number - 1
           /\ Len(slept) = attempt_number - 1
    /\ pc \in {"backoff", "done"} =>
           /\ Len(requests) = attempt_number
           /\ Len(received) = attempt_number
           /\ Len(slept) = attempt_number - 1
    /\ \A n \in 1..Len(slept) :
           /\ slept[n] = Max(2, Min(2 ^ (n - 1), 30))
           /\ n > 1 => slept[n - 1] <= slept[n]
    /\ slept # <<>> => slept[1] = 2
    /\ \A n \in 1..MaxWaitAttempt :
           /\ wait_exponential(n) = Max(2, Min(2 ^ (n - 1), 30))
           /\ wait_exponential(n) <= wait_exponential(n + 1)
           /\ 2 <= wait_exponential(n) /\ wait_exponential(n) <= 30

C25_Witness ==
    /\ pc = "done"
    /\ Len(requests) = 3
    /\ Len(received) = 3
    /\ slept = <<2, 2>>

\* C26: health_check never raises and always returns a map with "version"
\* whose "status" is "ok", "auth_error" or "error"; a 404, a rate-limit
\* exhaustion and every error map of the executor give "error", and only an
\* AuthenticationError (a 401 or 403 answer) gives "auth_error".
C26_HealthCheckTotal ==
    (pc = "tool_done" /\ tool = "health_check") =>
        /\ tool_outcome.kind = "returned"
        /\ tool_outcome.value.t = "dict"
        /\ HasKey(tool_outcome.value, "status")
        /\ Get(tool_outcome.value, "status")
               \in {StrV(<<"ok">>), StrV(<<"auth_error">>), StrV(<<"error">>)}
        /\ HasKey(tool_outcome.value, "version")
        /\ Get(tool_outcome.value, "version") = StrV(<<"0.2.4">>)
        /\ (LastReceived.kind = "response" /\ LastReceived.status_code = 404) =>
               Get(tool_outcome.value, "status") = StrV(<<"error">>)
        /\ (outcome.kind = "raised" /\ outcome.exc.type = "RateLimitError") =>
               Get(tool_outcome.value, "status") = StrV(<<"error">>)
        /\ (outcome.kind = "returned" /\ outcome.value.t = "dict"
                /\ HasKey(outcome.value, "error")) =>
               Get(tool_outcome.value, "status") = StrV(<<"error">>)
        /\ Get(tool_outcome.value, "status") = StrV(<<"auth_error">>) <=>
               (LastReceived.kind = "response"
                /\ LastReceived.status_code \in {401, 403})

C26_Witness ==
    /\ pc = "tool_done"
    /\ tool = "health_check"
    /\ Len(received) = 3
    /\ \A i \in 1..3 : Is429(received[i])
    /\ outcome.kind = "raised"
    /\ outcome.exc.type = "RateLimitError"
    /\ tool_outcome.kind = "returned"
    /\ Get(tool_outcome.value, "status") = StrV(<<"error">>)

\* C28: a 2xx answer whose body cannot be decoded as JSON ends the call at
\* once: nothing is raised, no further attempt is made, and the map
\* {"error": "Request failed: <message>"} is returned.
C28_UndecodableBody ==
    \A i \in 1..Len(received) :
        (/\ received[i].kind = "response"
         /\ 200 <= received[i].status_code /\ received[i].status_code <= 299
         /\ ~received[i].json_ok)
        => /\ i = Len(received)
           /\ Len(requests) = i
           /\ pc = "done"
           /\ outcome.kind = "returned"
           /\ outcome.value.t = "dict"
           /\ outcome.value.keys = <<"error">>
           /\ Len(outcome.value.items[1].s) > 1
           /\ Head(outcome.value.items[1].s) = "Request failed: "

C28_Witness ==
    /\ pc = "done"
    /\ Len(received) = 1
    /\ received[1].status_code = 204
    /\ ~received[1].json_ok
    /\ outcome = Returned(ErrorMap(<<"Request failed: ", "Expecting value">>))

\* C29: a call of make_raw_request issues exactly one request whatever the
\* answer: a 429 is not retried and raises no RateLimitError, a 401, 403 or
\* 404 raises no AuthenticationError or NotFoundError; nothing is raised.
C29_RawSingleRequest ==
    /\ Len(requests) <= 1
    /\ slept = <<>>
    /\ pc = "raw_done" =>
           /\ Len(requests) = 1
           /\ Len(received) = 1
           /\ outcome.kind = "returned"

C29_Witness ==
    /\ pc = "raw_done"
    /\ Len(requests) = 1
    /\ LastReceived.kind = "response"
    /\ LastReceived.status_code = 404
    /\ outcome.kind = "returned"

\* C30: the AuthenticationError raised by make_api_request carries status
\* code 401, also when the answer had status 403; the status of the answer
\* is not recorded in it.
C30_AuthenticationStatus ==
    (outcome.kind = "raised" /\ outcome.exc.type = "AuthenticationError") =>
        /\ outcome.exc.status_code = 401
        /\ outcome.exc.response_status = 0
        /\ outcome.exc.str
               = <<"API Error ", "4", "0", "1", ":", " ", "Invalid or expired API key.">>

C30_Witness ==
    /\ pc = "done"
    /\ LastReceived.kind = "response"
    /\ LastReceived.status_code = 403
    /\ outcome.kind = "raised"
    /\ outcome.exc.type = "AuthenticationError"
    /\ outcome.exc.status_code = 401

(***************************************************************************)
(* Properties of the process, of the registered tools and of two tasks.    *)
(***************************************************************************)
\* main has ended the process with a non-zero code after printing
ExitedWithDiagnostic ==
    /\ exit_code.some
    /\ exit_code.v # 0
    /\ stdout # <<>>
    /\ pc = "idle"
    /\ tool = ""
    /\ requests = <<>>

\* C21: when the credential is absent main ends the process with a non-zero
\* exit code after a diagnostic, the run loop is never entered, and no tool
\* has been registered with the server when the process exits.
C21_ExitBeforeRegistration ==
    /\ ~truthy(GOLF_GENIUS_API_KEY) => process # "running"
    /\ process = "exited" => (ExitedWithDiagnostic /\ registered = <<>>)

IsRegistered(t) == \E i \in 1..Len(registered) : registered[i] = t

\* C27: every request caused by a registered tool is a GET without an
\* Authorization header; every handler that issues POST, PUT or DELETE is
\* left unregistered.
C27_RegisteredToolsReadOnly ==
    /\ \A i \in 1..Len(requests) :
           /\ upper(requests[i].method) = GET
           /\ requests[i].method = handler_method(tool)
           /\ requests[i].headers.some =>
                  ~HasKey(requests[i].headers.v, "Authorization")
    /\ \A j \in 1..Len(HANDLERS) :
           handler_method(HANDLERS[j]) # GET => ~IsRegistered(HANDLERS[j])
    /\ \A i \in 1..Len(registered) : handler_method(registered[i]) = GET
    /\ tool # "" => IsRegistered(tool)

C27_Witness ==
    /\ process = "running"
    /\ Len(registered) = 15
    /\ tool = "get_round_tee_sheet"
    /\ args.include_all_custom_fields = BoolV(TRUE)
    /\ pc = "tool_done"
    /\ Len(requests) = 3
    /\ \A i \in 1..3 : requests[i].method = GET

\* C24: no interleaving of two tasks that both call the executor while no
\* client exists creates two clients: the read-check-create of _get_client
\* holds no suspension point, one client is created, and both tasks use it.
C24_OneClient ==
    /\ clients_created <= 1
    /\ \A t \in Tasks :
           tasks[t].pc \in {"awaiting", "backoff", "done"} =>
               /\ _client.exists
               /\ clients_created = 1
               /\ tasks[t].client = _client.id
    /\ \A i \in 1..Len(requests) : requests[i].client = _client.id

C24_Witness ==
    /\ \A t \in Tasks : tasks[t].pc = "awaiting" /\ tasks[t].attempt_number = 1
    /\ Len(requests) = 2
    /\ clients_created = 1
    /\ requests[1].client = requests[2].client

\* C24 as stated: two tasks that both start while no client exists come to
\* a state in which two clients have been created.
C24_TwoClients == <>(clients_created >= 2)
====
